---- MODULE Spec2Model ----
(***************************************************************************)
(* Model of the portfolio calculator core                                  *)
(* (apps/chatbot/lib/portfolioCalculator.ts): configuration validation,    *)
(* grouping of return rows by date, the complete-date filter, the          *)
(* weight-drift / rebalance simulation and the metrics reduction.          *)
(*                                                                         *)
(* Numbers.  A JavaScript number is modelled as a pair <<n, d>>:           *)
(*   d > 0   the rational n/d in lowest terms,                             *)
(*   d = 0   a non-finite value: <<1,0>> = Infinity, <<-1,0>> = -Infinity, *)
(*           <<0,0>> = NaN.                                                *)
(* Arithmetic on the pairs is exact; with the dyadic inputs used below the *)
(* products and sums of the simulation are exact in IEEE doubles as well.  *)
(* Equality of pairs is identity of values (so NaN is "equal" to NaN here);*)
(* the JavaScript comparisons <, <=, > are the operators Lt, Le, Gt, which *)
(* are false on NaN as in the language.                                    *)
(*                                                                         *)
(* Dates.  A date key is modelled by its month index k (1, 2, ...), which  *)
(* stands for a calendar key of one fixed format; the code-unit order of   *)
(* such keys, which Array.prototype.sort uses, is the order of the indices.*)
(***************************************************************************)
EXTENDS Integers, Sequences, FiniteSets, TLC

VARIABLES
    config,               \* calculatePortfolio argument: PortfolioConfig
    returns,              \* calculatePortfolio argument: AssetReturn[]
    pc,                   \* position inside calculatePortfolio
    returnsByDate,        \* Map<date, Map<asset, return>>, in insertion order
    completeDates,        \* local of calculatePortfolioReturns
    dateIdx,              \* number of completeDates already consumed by the loop
    cumulativeValue,      \* local of calculatePortfolioReturns (full precision)
    currentWeights,       \* local of calculatePortfolioReturns
    monthsSinceRebalance, \* local of calculatePortfolioReturns
    monthlyReturns,       \* MonthlyPortfolioReturn[]
    timeSeries,           \* Array<{date, value}>
    metrics,              \* PortfolioMetrics (or Undefined)
    result,               \* value returned by calculatePortfolio (or Undefined)
    error,                \* message of the Error thrown (or Undefined)
    completedCalls,       \* the calls of calculatePortfolio that have ended
    csv,                  \* string returned by generateCSV (or Undefined)
    missingAssets,        \* fetchMissingAssets argument: the tickers to add
    fetchPc,              \* position inside fetchMissingAssets
    tickerIdx,            \* index of the ticker the for-of loop is at
    successCount,         \* local of fetchMissingAssets
    failedCount,          \* local of fetchMissingAssets
    fetchResult,          \* value returned by fetchMissingAssets (or Undefined)
    fetchEvents,          \* the requests and rate-limit waits so far, in order
    env,                  \* process.env: SUPABASE_URL and SUPABASE_KEY
    dataServiceInstance,  \* module variable of the data service (null: Undefined)
    objects,              \* number of PortfolioDataService objects constructed
    serviceCalls,         \* the calls of getDataService / createDataService so far
    addBody,              \* body of the request to the add-asset route
    addPc,                \* position inside the add-asset POST handler
    dbTickers,            \* the tickers with rows in the asset_returns table
    existsCheck,          \* the call of checkAssetExists (or Undefined)
    spawns,               \* the tickers the fetch script was spawned with
    childState,           \* the script process: "none", "running", "closed"
    exitCode,             \* the exit code of the script process (null: NullCode)
    output,               \* addNewAsset local: the stdout chunks received
    errorOutput,          \* addNewAsset local `error`: the stderr chunks received
    promise,              \* the promise addNewAsset returned (or Undefined)
    resolveCalls,         \* number of calls of the promise's resolve
    addResponse,          \* the response of the add-asset route (or Undefined)
    requestBody,          \* body of the request to the calculate route
    reqPc,                \* position inside the calculate POST handler
    steps,                \* the collaborators the handler has called, in order
    feedRows,             \* handler local assetReturns: the rows of the feed query
    csvFilename,          \* handler local
    response              \* the response of the calculate route (or Undefined)

\* the variables of the calculator core
coreVars == <<config, returns, pc, returnsByDate, completeDates, dateIdx,
              cumulativeValue, currentWeights, monthsSinceRebalance,
              monthlyReturns, timeSeries, metrics, result, error, completedCalls>>

\* the variables of PortfolioDataService.fetchMissingAssets
fetchVars == <<missingAssets, fetchPc, tickerIdx, successCount, failedCount,
               fetchResult, fetchEvents>>

\* the variables of the singleton factory of the data service
dataServiceVars == <<env, dataServiceInstance, objects, serviceCalls>>

\* the variables of the add-asset route
addAssetVars == <<addBody, addPc, dbTickers, existsCheck, spawns, childState,
                  exitCode, output, errorOutput, promise, resolveCalls, addResponse>>

\* the variables of the code around the core: the CSV rendering, the data
\* service, the request handlers and the add-asset route
\* the variables of the calculate route
handlerVars == <<requestBody, reqPc, steps, feedRows, csvFilename, response>>

serviceVars == <<csv, fetchVars, dataServiceVars, addAssetVars, handlerVars>>

vars == <<coreVars, serviceVars>>

\* undefined / absent value (an omitted optional field, no result, no error)
Undefined == <<>>

\* the exit code null of a script process: not exited, or ended by a signal
NullCode == -1

\* nothing around the core has run: the state of the service variables when
\* the module is loaded
CsvIdle == csv = Undefined

\* fetchMissingAssets has not been called
FetchIdle ==
    /\ missingAssets = Undefined
    /\ fetchPc = "idle"
    /\ tickerIdx = 0
    /\ successCount = 0
    /\ failedCount = 0
    /\ fetchResult = Undefined
    /\ fetchEvents = <<>>

\* the data service module is loaded, no factory was called, and the
\* environment variables are not set
DataServiceIdle ==
    /\ env = [SUPABASE_URL |-> Undefined, SUPABASE_KEY |-> Undefined]
    /\ dataServiceInstance = Undefined
    /\ objects = 0
    /\ serviceCalls = <<>>

\* the add-asset route has received no request
AddAssetIdle ==
    /\ addBody = Undefined
    /\ addPc = "idle"
    /\ dbTickers = {}
    /\ existsCheck = Undefined
    /\ spawns = <<>>
    /\ childState = "none"
    /\ exitCode = NullCode
    /\ output = <<>>
    /\ errorOutput = <<>>
    /\ promise = Undefined
    /\ resolveCalls = 0
    /\ addResponse = Undefined

\* the calculate route has received no request
HandlerIdle ==
    /\ requestBody = Undefined
    /\ reqPc = "idle"
    /\ steps = <<>>
    /\ feedRows = Undefined
    /\ csvFilename = ""
    /\ response = Undefined

ServiceIdle == CsvIdle /\ FetchIdle /\ DataServiceIdle /\ AddAssetIdle /\ HandlerIdle

\* calculatePortfolio and calculateMetrics have not been called
CoreIdle ==
    /\ config = Undefined
    /\ returns = Undefined
    /\ pc = "idle"
    /\ returnsByDate = <<>>
    /\ completeDates = <<>>
    /\ dateIdx = 0
    /\ cumulativeValue = Undefined
    /\ currentWeights = <<>>
    /\ monthsSinceRebalance = 0
    /\ monthlyReturns = <<>>
    /\ timeSeries = <<>>
    /\ metrics = Undefined
    /\ result = Undefined
    /\ error = Undefined
    /\ completedCalls = <<>>

-----------------------------------------------------------------------------
(* Bounds of the model *)

\* largest number of distinct date keys in the input rows
MaxDates == 3

\* longest record sequence handed directly to calculateMetrics
MaxRecords == 3

\* largest number of successive calls of calculatePortfolio
MaxCalls == 2

\* longest ticker list handed to fetchMissingAssets
MaxTickers == 3

\* largest number of calls of the data service factories
MaxServiceCalls == 3

\* largest number of pieces of text the fetch script writes to one of its
\* streams
MaxOutput == 3

-----------------------------------------------------------------------------
(* Number arithmetic *)

Abs(x) == IF x < 0 THEN -x ELSE x

Sign(x) == IF x > 0 THEN 1 ELSE IF x < 0 THEN -1 ELSE 0

RECURSIVE GCD(_, _)
GCD(a, b) == IF b = 0 THEN a ELSE GCD(b, a % b)

\* the number n/d, normalised (d = 0 gives Infinity, -Infinity or NaN)
Num(n, d) ==
    IF d = 0 THEN <<Sign(n), 0>>
    ELSE LET g == GCD(Abs(n), Abs(d))
         IN  <<Sign(n) * Sign(d) * (Abs(n) \div g), Abs(d) \div g>>

Zero == <<0, 1>>
One  == <<1, 1>>
NaN  == <<0, 0>>
PosInf == <<1, 0>>
NegInf == <<-1, 0>>

IsFinite(a) == a[2] # 0
IsNaN(a) == a = NaN

Neg(a) == <<-a[1], a[2]>>

\* a + b
Add(a, b) ==
    IF IsFinite(a) /\ IsFinite(b)
    THEN LET g == GCD(a[2], b[2])
         IN  Num(a[1] * (b[2] \div g) + b[1] * (a[2] \div g), (a[2] \div g) * b[2])
    ELSE IF ~IsFinite(a) /\ ~IsFinite(b)
         THEN (IF a = b THEN a ELSE NaN)
         ELSE IF ~IsFinite(a) THEN a ELSE b

Sub(a, b) == Add(a, Neg(b))

\* a * b
Mul(a, b) ==
    IF IsFinite(a) /\ IsFinite(b)
    THEN LET g1 == GCD(Abs(a[1]), b[2])
             g2 == GCD(Abs(b[1]), a[2])
         IN  Num(Sign(a[1]) * Sign(b[1]) * ((Abs(a[1]) \div g1) * (Abs(b[1]) \div g2)),
                 (a[2] \div g2) * (b[2] \div g1))
    ELSE <<Sign(a[1]) * Sign(b[1]), 0>>

\* a / b  (a zero divisor is +0 everywhere it arises: 1 + (-1))
Div(a, b) ==
    IF IsFinite(b)
    THEN IF b[1] = 0
         THEN <<Sign(a[1]), 0>>
         ELSE IF IsFinite(a)
              THEN Mul(a, <<Sign(b[1]) * b[2], Abs(b[1])>>)
              ELSE <<Sign(a[1]) * Sign(b[1]), 0>>
    ELSE IF IsFinite(a) /\ ~IsNaN(b) THEN Zero ELSE NaN

\* a/b < c/d for b, d > 0, by comparing integer parts and then the
\* reciprocals of the fractional parts (no product is formed)
RECURSIVE FracLess(_, _, _, _)
FracLess(a, b, c, d) ==
    IF a \div b # c \div d THEN a \div b < c \div d
    ELSE IF c % d = 0 THEN FALSE
    ELSE IF a % b = 0 THEN TRUE
    ELSE FracLess(d, c % d, b, a % b)

\* a < b
Lt(a, b) ==
    IF IsNaN(a) \/ IsNaN(b) \/ a = b THEN FALSE
    ELSE IF a = NegInf \/ b = PosInf THEN TRUE
    ELSE IF a = PosInf \/ b = NegInf THEN FALSE
    ELSE FracLess(a[1], a[2], b[1], b[2])

Gt(a, b) == Lt(b, a)

\* a <= b
Le(a, b) == ~IsNaN(a) /\ ~IsNaN(b) /\ (a = b \/ Lt(a, b))

Ge(a, b) == Le(b, a)

\* Math.abs
MathAbs(a) == <<Abs(a[1]), a[2]>>

\* Math.max(a, b) and Math.min(a, b): NaN if either argument is NaN
MathMax(a, b) == IF IsNaN(a) \/ IsNaN(b) THEN NaN ELSE IF Lt(a, b) THEN b ELSE a

MathMin(a, b) == IF IsNaN(a) \/ IsNaN(b) THEN NaN ELSE IF Lt(b, a) THEN b ELSE a

\* Number.isInteger
IsInteger(a) == a[2] = 1

RECURSIVE Pow10(_)
Pow10(k) == IF k = 0 THEN 1 ELSE 10 * Pow10(k - 1)

\* <<q, r>> + <<q2, r2>> where a pair <<q, r>> stands for q*d + r, r < d
CarryAdd(x, y, d) ==
    IF x[2] >= d - y[2]
    THEN <<x[1] + y[1] + 1, x[2] - (d - y[2])>>
    ELSE <<x[1] + y[1], x[2] + y[2]>>

\* <<(10*r) \div d, (10*r) % d>> for r < d, formed by carried additions so
\* that no intermediate exceeds d
TimesTen(r, d) ==
    LET x1  == <<0, r>>
        x2  == CarryAdd(x1, x1, d)
        x4  == CarryAdd(x2, x2, d)
        x5  == CarryAdd(x4, x1, d)
    IN  CarryAdd(x5, x5, d)

\* long division: k further decimal digits of r/d (r < d) appended to acc;
\* the result is <<digits, remainder>>
RECURSIVE DecimalDigits(_, _, _, _)
DecimalDigits(r, d, k, acc) ==
    IF k = 0 THEN <<acc, r>>
    ELSE LET t == TimesTen(r, d)
         IN  DecimalDigits(t[2], d, k - 1, acc * 10 + t[1])

\* parseFloat(x.toFixed(digits)): x rounded to the given number of decimals,
\* ties away from zero; NaN and the infinities pass through
ToFixed(a, digits) ==
    IF ~IsFinite(a) THEN a
    ELSE LET n  == Abs(a[1])
             dd == DecimalDigits(n % a[2], a[2], digits,  n \div a[2])
             up == IF dd[2] >= a[2] - dd[2] THEN 1 ELSE 0
         IN  Num(Sign(a[1]) * (dd[1] + up), Pow10(digits))

\* sum of a sequence of numbers, left to right from 0 (Array.reduce)
RECURSIVE SumSeq(_)
SumSeq(s) == IF s = <<>> THEN Zero ELSE Add(SumSeq(SubSeq(s, 1, Len(s) - 1)), s[Len(s)])

-----------------------------------------------------------------------------
(* Binary floating point (IEEE 754 binary64, round to nearest, ties to even).
   The sums and products of the simulation are modelled exactly; the mean of
   the monthly returns in calculateMetrics is compared for equality with the
   returns themselves, which rounding decides, so it is computed on doubles.

   A natural number of any size is a sequence of bits, least significant
   first, without leading zeros.  A double is [sign, bits, exp] standing for
   sign * bits * 2^exp, with bits odd and of at most MantissaBits bits; the
   exponent range is not modelled (no value here is near its ends). *)

MantissaBits == 53

RECURSIVE BitsOf(_)
BitsOf(n) == IF n = 0 THEN <<>> ELSE <<n % 2>> \o BitsOf(n \div 2)

ZeroBits(k) == [i \in 1..k |-> 0]

\* removal of the leading zeros
TrimBits(a) ==
    IF \A i \in 1..Len(a) : a[i] = 0 THEN <<>>
    ELSE SubSeq(a, 1, CHOOSE i \in 1..Len(a) :
                          a[i] = 1 /\ \A j \in (i + 1)..Len(a) : a[j] = 0)

\* a + b: the carry into position i comes from a position below it where
\* both bits are set, through positions where at least one bit is set
BitsAdd(a, b) ==
    LET n        == IF Len(a) > Len(b) THEN Len(a) ELSE Len(b)
        bit(x, i) == IF i <= Len(x) THEN x[i] ELSE 0
        carry(i) == IF \E j \in 1..(i - 1) :
                          /\ bit(a, j) = 1 /\ bit(b, j) = 1
                          /\ \A k \in (j + 1)..(i - 1) : bit(a, k) = 1 \/ bit(b, k) = 1
                    THEN 1 ELSE 0
    IN  TrimBits([i \in 1..(n + 1) |-> (bit(a, i) + bit(b, i) + carry(i)) % 2])

\* the number held by a few bits
RECURSIVE ChunkValue(_)
ChunkValue(c) == IF c = <<>> THEN 0 ELSE c[1] + 2 * ChunkValue(Tail(c))

\* <<quotient, remainder>> of the division of a by the small integer n, four
\* bits at a time from the most significant bits down
RECURSIVE BitsDiv(_, _)
BitsDiv(a, n) ==
    IF a = <<>> THEN << <<>>, 0 >>
    ELSE LET len   == IF Len(a) < 4 THEN Len(a) ELSE 4
             upper == BitsDiv(SubSeq(a, len + 1, Len(a)), n)
             r     == upper[2] * (2 ^ len) + ChunkValue(SubSeq(a, 1, len))
             q     == r \div n
         IN  << [i \in 1..len |-> (q \div (2 ^ (i - 1))) % 2] \o upper[1], r % n >>

FloatZero == [sign |-> 0, bits |-> <<>>, exp |-> 0]

\* sign * bits * 2^exp written with an odd mantissa
FloatOf(sign, bits, exp) ==
    IF \A i \in 1..Len(bits) : bits[i] = 0 THEN FloatZero
    ELSE LET low == CHOOSE i \in 1..Len(bits) :
                        bits[i] = 1 /\ \A j \in 1..(i - 1) : bits[j] = 0
         IN  [sign |-> sign, bits |-> TrimBits(SubSeq(bits, low, Len(bits))),
              exp |-> exp + low - 1]

\* the double nearest to sign * (bits + f) * 2^exp, where 0 <= f < 1 and
\* f > 0 iff sticky; a sticky value comes with more than MantissaBits bits
RoundToDouble(sign, bits, exp, sticky) ==
    LET b == TrimBits(bits)
        k == Len(b) - MantissaBits
    IN  IF k <= 0 THEN FloatOf(sign, b, exp)
        ELSE LET kept    == SubSeq(b, k + 1, Len(b))
                 below   == sticky \/ \E i \in 1..(k - 1) : b[i] = 1
                 roundUp == b[k] = 1 /\ (below \/ kept[1] = 1)
             IN  FloatOf(sign, IF roundUp THEN BitsAdd(kept, <<1>>) ELSE kept, exp + k)

\* the double nearest to a finite number n/d
DoubleOf(a) ==
    IF a[1] = 0 THEN FloatZero
    ELSE LET k == MantissaBits + 2 + Len(BitsOf(a[2]))
             q == BitsDiv(ZeroBits(k) \o BitsOf(Abs(a[1])), a[2])
         IN  RoundToDouble(Sign(a[1]), q[1], -k, q[2] # 0)

\* x + y for doubles of the same sign
FloatAdd(x, y) ==
    IF x.sign = 0 THEN y
    ELSE IF y.sign = 0 THEN x
    ELSE LET e == IF x.exp < y.exp THEN x.exp ELSE y.exp
         IN  RoundToDouble(x.sign,
                           BitsAdd(ZeroBits(x.exp - e) \o x.bits,
                                   ZeroBits(y.exp - e) \o y.bits),
                           e, FALSE)

\* x / n for a double x and a small positive integer n
FloatDivInt(x, n) ==
    IF x.sign = 0 THEN FloatZero
    ELSE LET k == MantissaBits + 2 + Len(BitsOf(n))
             q == BitsDiv(ZeroBits(k) \o x.bits, n)
         IN  RoundToDouble(x.sign, q[1], x.exp - k, q[2] # 0)

-----------------------------------------------------------------------------
(* validatePortfolioConfig *)

\* the error message built when the weights do not sum to 1.0; the second
\* component is weightSum.toFixed(3)
WeightSumMessage(weightSum) ==
    <<"Weights must sum to 1.0 (currently ", ToFixed(weightSum, 3), ")">>

\* an omitted cadence defaulted to 1
RebalanceMonthsOf_DefaultOne(cfg) ==
    IF cfg.rebalanceMonths = Undefined THEN One ELSE cfg.rebalanceMonths

\* config.rebalanceMonths ?? -1
RebalanceMonthsOf(cfg) ==
    IF cfg.rebalanceMonths = Undefined THEN Num(-1, 1) ELSE cfg.rebalanceMonths

\* the validation with the cadence test < 0 in place of < 1
validatePortfolioConfig_ZeroCadence(cfg) ==
    LET weightSum == SumSeq(cfg.weights)
        rebalanceMonths == RebalanceMonthsOf(cfg)
    IN  IF Len(cfg.assets) = 0
        THEN [valid |-> FALSE, error |-> <<"At least one asset is required">>]
        ELSE IF Len(cfg.weights) = 0
        THEN [valid |-> FALSE, error |-> <<"Weights array is required">>]
        ELSE IF Len(cfg.assets) # Len(cfg.weights)
        THEN [valid |-> FALSE,
              error |-> <<"Assets and weights arrays must have the same length">>]
        ELSE IF Gt(MathAbs(Sub(weightSum, One)), Num(1, 100))
        THEN [valid |-> FALSE, error |-> WeightSumMessage(weightSum)]
        ELSE IF rebalanceMonths # Num(-1, 1)
                /\ (Lt(rebalanceMonths, Zero) \/ ~IsInteger(rebalanceMonths))
        THEN [valid |-> FALSE,
              error |-> <<"rebalanceMonths must be -1 (never) or a positive integer">>]
        ELSE [valid |-> TRUE, error |-> Undefined]

validatePortfolioConfig(cfg) ==
    LET weightSum == SumSeq(cfg.weights)
        rebalanceMonths == RebalanceMonthsOf(cfg)
    IN  IF Len(cfg.assets) = 0
        THEN [valid |-> FALSE, error |-> <<"At least one asset is required">>]
        ELSE IF Len(cfg.weights) = 0
        THEN [valid |-> FALSE, error |-> <<"Weights array is required">>]
        ELSE IF Len(cfg.assets) # Len(cfg.weights)
        THEN [valid |-> FALSE,
              error |-> <<"Assets and weights arrays must have the same length">>]
        ELSE IF Gt(MathAbs(Sub(weightSum, One)), Num(1, 100))
        THEN [valid |-> FALSE, error |-> WeightSumMessage(weightSum)]
        ELSE IF rebalanceMonths # Num(-1, 1)
                /\ (Lt(rebalanceMonths, One) \/ ~IsInteger(rebalanceMonths))
        THEN [valid |-> FALSE,
              error |-> <<"rebalanceMonths must be -1 (never) or a positive integer">>]
        ELSE [valid |-> TRUE, error |-> Undefined]

-----------------------------------------------------------------------------
(* Inputs of the model *)

\* the rows one date contributes to the feed, in feed order: both assets
\* flat; X doubled and Y halved; Y up and X flat (Y listed first); X listed
\* twice with Y absent
MonthRows ==
    { << [asset |-> "X", return |-> Zero],       [asset |-> "Y", return |-> Zero] >>,
      << [asset |-> "X", return |-> One],        [asset |-> "Y", return |-> Num(-1, 2)] >>,
      << [asset |-> "Y", return |-> Num(1, 8)],  [asset |-> "X", return |-> Zero] >>,
      << [asset |-> "X", return |-> One],        [asset |-> "X", return |-> Num(-1, 2)] >> }

\* a feed table: the rows of dates 1..n, n <= MaxDates
FeedTables == UNION { [1..n -> MonthRows] : n \in 0..MaxDates }

\* the AssetReturn rows of date d
RowsOfDate(tbl, d) ==
    [i \in 1..Len(tbl[d]) |->
        [asset |-> tbl[d][i].asset, date |-> d, return |-> tbl[d][i].return]]

\* the rows of dates 1..n in ascending date order
RECURSIVE RowsAscending(_, _)
RowsAscending(tbl, n) ==
    IF n = 0 THEN <<>> ELSE RowsAscending(tbl, n - 1) \o RowsOfDate(tbl, n)

\* the rows of dates 1..n in descending date order
RECURSIVE RowsDescending(_, _)
RowsDescending(tbl, n) ==
    IF n = 0 THEN <<>> ELSE RowsOfDate(tbl, n) \o RowsDescending(tbl, n - 1)

\* the rows of one asset on date d
RowsOfAsset(tbl, d, asset) == SelectSeq(RowsOfDate(tbl, d), LAMBDA r : r.asset = asset)

\* the rows of dates 1..n grouped by asset: the X rows in descending date
\* order before the Y rows in ascending date order
RECURSIVE RowsByAsset(_, _)
RowsByAsset(tbl, n) ==
    IF n = 0 THEN <<>>
    ELSE RowsOfAsset(tbl, n, "X") \o RowsByAsset(tbl, n - 1) \o RowsOfAsset(tbl, n, "Y")

\* the AssetReturn[] arguments: the feed is an unordered sequence
FeedInputs ==
    { RowsAscending(t, Len(t)) : t \in FeedTables }
        \cup { RowsDescending(t, Len(t)) : t \in FeedTables }
        \cup { RowsByAsset(t, Len(t)) : t \in FeedTables }

AssetLists == { <<>>, <<"X">>, <<"X", "Y">> }

WeightLists ==
    { <<>>,
      << One >>,
      << Num(1, 2), Num(1, 2) >>,
      << Num(1, 4), Num(3, 4) >>,
      << Num(63, 128), Num(1, 2) >>,
      << Num(-1, 15), Num(16, 15) >>,
      << Num(1, 2), Num(2, 5) >>,
      << Num(1, 2), Num(17, 32) >> }

RebalanceChoices ==
    { Undefined, Num(-1, 1), Zero, One, Num(2, 1), Num(3, 1), Num(3, 2) }

\* the PortfolioConfig arguments (startDate and endDate are not read by the
\* calculator and are left out)
Configs ==
    { [assets |-> a, weights |-> w, rebalanceMonths |-> r] :
        a \in AssetLists, w \in WeightLists, r \in RebalanceChoices }

-----------------------------------------------------------------------------
(* groupReturnsByDate and getCompleteDates *)

\* Map.has / Map.get on the outer map, kept as a sequence of entries
\* [date, assetReturns] in insertion order
MapHas(map, date) == \E i \in 1..Len(map) : map[i].date = date

MapGet(map, date) == map[CHOOSE i \in 1..Len(map) : map[i].date = date].assetReturns

\* dateMap.set(asset, value)
InnerSet(dateMap, asset, value) ==
    [a \in (DOMAIN dateMap) \cup {asset} |-> IF a = asset THEN value ELSE dateMap[a]]

\* the empty inner map
EmptyInner == [a \in {} |-> Zero]

\* one iteration of the loop of groupReturnsByDate
GroupRow(map, row) ==
    IF MapHas(map, row.date)
    THEN [i \in 1..Len(map) |->
            IF map[i].date = row.date
            THEN [date |-> row.date,
                  assetReturns |-> InnerSet(map[i].assetReturns, row.asset, row.return)]
            ELSE map[i]]
    ELSE Append(map, [date |-> row.date,
                      assetReturns |-> InnerSet(EmptyInner, row.asset, row.return)])

RECURSIVE groupReturnsByDate(_)
groupReturnsByDate(rows) ==
    IF rows = <<>> THEN <<>>
    ELSE GroupRow(groupReturnsByDate(SubSeq(rows, 1, Len(rows) - 1)), rows[Len(rows)])

\* assets.every(asset => assetReturns.has(asset))
HasAllAssets(assetReturns, assets) ==
    \A i \in 1..Len(assets) : assets[i] \in DOMAIN assetReturns

\* insertion of a key into an ascending sequence
RECURSIVE InsertSorted(_, _)
InsertSorted(s, x) ==
    IF s = <<>> THEN <<x>>
    ELSE IF x < s[Len(s)] THEN Append(InsertSorted(SubSeq(s, 1, Len(s) - 1), x), s[Len(s)])
    ELSE Append(s, x)

\* the dates left in the order of the map
SortDates_None(s) == s

\* Array.prototype.sort() on date keys
RECURSIVE SortDates(_)
SortDates(s) ==
    IF s = <<>> THEN <<>>
    ELSE InsertSorted(SortDates(SubSeq(s, 1, Len(s) - 1)), s[Len(s)])

\* the dates pushed by the loop of getCompleteDates, in map order
RECURSIVE PushedDates(_, _)
PushedDates(map, assets) ==
    IF map = <<>> THEN <<>>
    ELSE LET front == PushedDates(SubSeq(map, 1, Len(map) - 1), assets)
             last  == map[Len(map)]
         IN  IF HasAllAssets(last.assetReturns, assets)
             THEN Append(front, last.date) ELSE front

\* the complete dates left in map order
getCompleteDates_Unsorted(map, assets) == PushedDates(map, assets)

getCompleteDates(map, assets) == SortDates(PushedDates(map, assets))

-----------------------------------------------------------------------------
(* calculatePortfolioReturns: one iteration of the loop over completeDates *)

\* assetReturns.get(asset) || 0
AssetReturnOf(assetReturns, asset) ==
    IF asset \notin DOMAIN assetReturns THEN Zero
    ELSE IF IsNaN(assetReturns[asset]) THEN Zero ELSE assetReturns[asset]

\* the blend taken with the config weights in place of the current weights
RECURSIVE WeightedReturn_ConfigWeights(_, _, _, _)
WeightedReturn_ConfigWeights(weights, assets, assetReturns, i) ==
    IF i = 0 THEN Zero
    ELSE Add(WeightedReturn_ConfigWeights(weights, assets, assetReturns, i - 1),
             Mul(config.weights[i], AssetReturnOf(assetReturns, assets[i])))

\* monthlyReturn after the first i assets: sum of currentWeights[j] * assetReturn_j
RECURSIVE WeightedReturn(_, _, _, _)
WeightedReturn(weights, assets, assetReturns, i) ==
    IF i = 0 THEN Zero
    ELSE Add(WeightedReturn(weights, assets, assetReturns, i - 1),
             Mul(weights[i], AssetReturnOf(assetReturns, assets[i])))

\* newWeights left without the normalisation
DriftedWeights_Unnormalised(weights, assets, assetReturns, portfolioGrowth) ==
    [i \in 1..Len(assets) |->
        Mul(weights[i], Add(One, AssetReturnOf(assetReturns, assets[i])))]

\* newWeights without the asset's own growth factor
DriftedWeights_NoAssetGrowth(weights, assets, assetReturns, portfolioGrowth) ==
    [i \in 1..Len(assets) |-> Div(weights[i], portfolioGrowth)]

\* newWeights normalised by the portfolio return in place of the growth factor
DriftedWeights_ByReturn(weights, assets, assetReturns, portfolioGrowth) ==
    [i \in 1..Len(assets) |->
        Div(Mul(weights[i], Add(One, AssetReturnOf(assetReturns, assets[i]))),
            Sub(portfolioGrowth, One))]

\* newWeights after the normalisation by the portfolio growth
DriftedWeights(weights, assets, assetReturns, portfolioGrowth) ==
    [i \in 1..Len(assets) |->
        Div(Mul(weights[i], Add(One, AssetReturnOf(assetReturns, assets[i]))),
            portfolioGrowth)]

\* the cadence test with > in place of >=
ShouldRebalance_Strict(rebalanceMonths, months) ==
    Gt(rebalanceMonths, Zero) /\ Gt(Num(months, 1), rebalanceMonths)

\* rebalanceMonths > 0 && monthsSinceRebalance >= rebalanceMonths
ShouldRebalance(rebalanceMonths, months) ==
    Gt(rebalanceMonths, Zero) /\ Ge(Num(months, 1), rebalanceMonths)

\* a rebalance that keeps the drifted weights
WeightsCarried_NoReset(shouldRebalance, configWeights, newWeights) == newWeights

\* the weights carried into the next month
WeightsCarried(shouldRebalance, configWeights, newWeights) ==
    IF shouldRebalance
    THEN [i \in 1..Len(newWeights) |-> configWeights[i]]
    ELSE newWeights

\* a Record<asset, number> built from a positional list
ByAsset(assets, values) ==
    [a \in {assets[i] : i \in 1..Len(assets)} |->
        values[CHOOSE i \in 1..Len(assets) : assets[i] = a]]

\* the cumulative value emitted at full precision
EmittedValue_Unrounded(value) == value

\* parseFloat(cumulativeValue.toFixed(6))
EmittedValue(value) == ToFixed(value, 6)

\* the writes currentWeights[i] = ... reaching the caller's config.weights
\* (currentWeights being config.weights itself, not a copy)
ConfigAfterWeightWrites_Aliased(cfg, written) == [cfg EXCEPT !.weights = written]

\* the caller's config after the writes currentWeights[i] = ... of one
\* iteration: currentWeights is the copy [...config.weights], so the writes
\* do not reach config.weights
ConfigAfterWeightWrites(cfg, written) == cfg

\* the record with weightsBeforeRebalance taken after the update of the weights
MonthlyRecord_BeforeIsAfter(date, monthlyReturn, value, assets, assetReturns, before, after, rebalanced) ==
    [date                   |-> date,
     portfolioReturn        |-> monthlyReturn,
     cumulativeValue        |-> EmittedValue(value),
     assetReturns           |-> ByAsset(assets,
                                  [i \in 1..Len(assets) |-> AssetReturnOf(assetReturns, assets[i])]),
     weightsBeforeRebalance |-> ByAsset(assets, after),
     weightsAfterRebalance  |-> ByAsset(assets, after),
     wasRebalanced          |-> rebalanced]

\* the record pushed for one date
MonthlyRecord(date, monthlyReturn, value, assets, assetReturns, before, after, rebalanced) ==
    [date                   |-> date,
     portfolioReturn        |-> monthlyReturn,
     cumulativeValue        |-> EmittedValue(value),
     assetReturns           |-> ByAsset(assets,
                                  [i \in 1..Len(assets) |-> AssetReturnOf(assetReturns, assets[i])]),
     weightsBeforeRebalance |-> ByAsset(assets, before),
     weightsAfterRebalance  |-> ByAsset(assets, after),
     wasRebalanced          |-> rebalanced]

-----------------------------------------------------------------------------
(* calculateMetrics.  The values computed with Math.sqrt and Math.pow
   (annualizedReturn, the volatilities, annualizedExcessReturn) are not
   rational functions of the records: annualizedReturn and volatility are
   left out of the metrics value, and a ratio of two of them is kept as the
   quotient of its named operands when it is formed and as 0 when the guard
   of its denominator fails.  A guard compares a square root with 0, which is
   decided by the quantity under the root. *)

\* the default annual risk-free rate 0.02 taken to a month, Math.pow(1.02,
\* 1/12) - 1 = 0.0016515813..., cut after the ninth decimal; no return of the
\* model lies within 10^-9 of it
MonthlyRiskFreeRate == Num(1651581, 1000000000)

\* returns.reduce((sum, r) => sum + r, 0) over the first k returns, all of
\* one sign
RECURSIVE FloatSum(_, _)
FloatSum(rs, k) ==
    IF k = 0 THEN FloatZero ELSE FloatAdd(FloatSum(rs, k - 1), DoubleOf(rs[k]))

\* annualizedVolatility > 0.  A NaN or infinite return makes the variance
\* NaN.  Otherwise the variance is a sum of squares of r - avgReturn, which
\* is positive iff some return differs from the mean: two unequal returns
\* cannot both be the mean, and returns that are all equal are compared with
\* the mean computed on doubles.
VolatilityIsPositive(rs) ==
    IF \E i \in 1..Len(rs) : ~IsFinite(rs[i]) THEN FALSE
    ELSE IF \E i \in 1..Len(rs) : rs[i] # rs[1] THEN TRUE
    ELSE DoubleOf(rs[1]) # FloatDivInt(FloatSum(rs, Len(rs)), Len(rs))

\* downsideVolatility > 0: some return passes the filter r < monthlyRiskFreeRate
DownsideIsPositive(rs) ==
    \E i \in 1..Len(rs) : Lt(rs[i], MonthlyRiskFreeRate)

\* a / b, kept by the names of its operands
Quotient(a, b) == <<a, "/", b>>

\* annualizedVolatility > 0 ? annualizedExcessReturn / annualizedVolatility : 0
SharpeRatio(rs) ==
    IF VolatilityIsPositive(rs)
    THEN Quotient("annualizedExcessReturn", "annualizedVolatility")
    ELSE Zero

\* downsideVolatility > 0 ? annualizedExcessReturn / downsideVolatility : 0
SortinoRatio(rs) ==
    IF DownsideIsPositive(rs)
    THEN Quotient("annualizedExcessReturn", "downsideVolatility")
    ELSE Zero

\* maxDrawdown < 0 ? annualizedReturn / Math.abs(maxDrawdown) : 0
CalmarRatio(maxDrawdown) ==
    IF Lt(maxDrawdown, Zero)
    THEN Quotient("annualizedReturn", "Math.abs(maxDrawdown)")
    ELSE Zero

\* the drawdown loop with the peak replaced by the current value
RECURSIVE DrawdownLoop_NoPeak(_)
DrawdownLoop_NoPeak(records) ==
    IF records = <<>> THEN <<One, Zero>>
    ELSE LET prev     == DrawdownLoop_NoPeak(SubSeq(records, 1, Len(records) - 1))
             month    == records[Len(records)]
             maxValue == month.cumulativeValue
             drawdown == Div(Sub(month.cumulativeValue, maxValue), maxValue)
         IN  <<maxValue, MathMin(prev[2], drawdown)>>

\* the drawdown loop: <<maxValue, maxDrawdown>> after the given records
RECURSIVE DrawdownLoop(_)
DrawdownLoop(records) ==
    IF records = <<>> THEN <<One, Zero>>
    ELSE LET prev     == DrawdownLoop(SubSeq(records, 1, Len(records) - 1))
             month    == records[Len(records)]
             maxValue == MathMax(prev[1], month.cumulativeValue)
             drawdown == Div(Sub(month.cumulativeValue, maxValue), maxValue)
         IN  <<maxValue, MathMin(prev[2], drawdown)>>

\* Math.max(...returns) / Math.min(...returns) over the monthly returns
RECURSIVE BestMonth(_)
BestMonth(records) ==
    IF Len(records) = 1 THEN MathMax(NegInf, records[1].portfolioReturn)
    ELSE MathMax(BestMonth(SubSeq(records, 1, Len(records) - 1)),
                 records[Len(records)].portfolioReturn)

RECURSIVE WorstMonth(_)
WorstMonth(records) ==
    IF Len(records) = 1 THEN MathMin(PosInf, records[1].portfolioReturn)
    ELSE MathMin(WorstMonth(SubSeq(records, 1, Len(records) - 1)),
                 records[Len(records)].portfolioReturn)

\* the metrics of a non-empty record sequence
calculateMetrics(records) ==
    LET numMonths   == Len(records)
        finalValue  == records[numMonths].cumulativeValue
        totalReturn == Sub(finalValue, One)
        maxDrawdown == DrawdownLoop(records)[2]
        returnsOf   == [i \in 1..numMonths |-> records[i].portfolioReturn]
    IN  [totalReturn        |-> ToFixed(totalReturn, 6),
         totalReturnPercent |-> ToFixed(Mul(totalReturn, Num(100, 1)), 2),
         sharpeRatio        |-> SharpeRatio(returnsOf),
         maxDrawdown        |-> ToFixed(maxDrawdown, 6),
         maxDrawdownPercent |-> ToFixed(Mul(maxDrawdown, Num(100, 1)), 2),
         sortinoRatio       |-> SortinoRatio(returnsOf),
         calmarRatio        |-> CalmarRatio(maxDrawdown),
         numMonths          |-> numMonths,
         numYears           |-> ToFixed(Num(numMonths, 12), 2),
         bestMonth          |-> ToFixed(BestMonth(records), 6),
         worstMonth         |-> ToFixed(WorstMonth(records), 6)]

-----------------------------------------------------------------------------
(* calculatePortfolio *)

Init ==
    /\ config \in Configs
    /\ returns \in FeedInputs
    /\ pc = "validate"
    /\ returnsByDate = <<>>
    /\ completeDates = <<>>
    /\ dateIdx = 0
    /\ cumulativeValue = Undefined
    /\ currentWeights = <<>>
    /\ monthsSinceRebalance = 0
    /\ monthlyReturns = <<>>
    /\ timeSeries = <<>>
    /\ metrics = Undefined
    /\ result = Undefined
    /\ error = Undefined
    /\ completedCalls = <<>>
    /\ ServiceIdle

\* the validation result ignored
Validate_Ignored ==
    /\ pc = "validate"
    /\ pc' = "group"
    /\ UNCHANGED <<serviceVars, completedCalls, config, returns, returnsByDate, completeDates, dateIdx,
                   cumulativeValue, currentWeights, monthsSinceRebalance,
                   monthlyReturns, timeSeries, metrics, result, error>>

\* validatePortfolioConfig(config); throw new Error(validation.error)
Validate ==
    /\ pc = "validate"
    /\ LET validation == validatePortfolioConfig(config)
       IN  IF ~validation.valid
           THEN /\ pc' = "threw"
                /\ error' = validation.error
           ELSE /\ pc' = "group"
                /\ error' = error
    /\ UNCHANGED <<serviceVars, completedCalls, config, returns, returnsByDate, completeDates, dateIdx,
                   cumulativeValue, currentWeights, monthsSinceRebalance,
                   monthlyReturns, timeSeries, metrics, result>>

\* const returnsByDate = groupReturnsByDate(returns)
Group ==
    /\ pc = "group"
    /\ returnsByDate' = groupReturnsByDate(returns)
    /\ pc' = "returns"
    /\ UNCHANGED <<serviceVars, completedCalls, config, returns, completeDates, dateIdx, cumulativeValue,
                   currentWeights, monthsSinceRebalance, monthlyReturns,
                   timeSeries, metrics, result, error>>

\* the entry with the monthlyReturns array declared outside the function, so
\* that it is not emptied by a call
BeginReturns_SharedRecords ==
    /\ pc = "returns"
    /\ completeDates' = getCompleteDates(returnsByDate, config.assets)
    /\ IF Len(completeDates') = 0
       THEN /\ pc' = "check"
            /\ UNCHANGED <<cumulativeValue, currentWeights>>
       ELSE /\ pc' = "loop"
            /\ cumulativeValue' = One
            /\ currentWeights' = config.weights
    /\ monthsSinceRebalance' = 0
    /\ dateIdx' = 0
    /\ UNCHANGED <<serviceVars, completedCalls, config, returns, returnsByDate, monthlyReturns,
                   timeSeries, metrics, result, error>>

\* entry of calculatePortfolioReturns up to the loop: the locals are declared
\* and initialised here
BeginReturns ==
    /\ pc = "returns"
    /\ completeDates' = getCompleteDates(returnsByDate, config.assets)
    /\ IF Len(completeDates') = 0
       THEN /\ pc' = "check"
            /\ UNCHANGED <<cumulativeValue, currentWeights>>
       ELSE /\ pc' = "loop"
            /\ cumulativeValue' = One
            /\ currentWeights' = config.weights
    /\ monthlyReturns' = <<>>
    /\ monthsSinceRebalance' = 0
    /\ dateIdx' = 0
    /\ UNCHANGED <<serviceVars, completedCalls, config, returns, returnsByDate, timeSeries,
                   metrics, result, error>>

\* one iteration of the loop of calculatePortfolioReturns
LoopStep ==
    /\ pc = "loop"
    /\ dateIdx < Len(completeDates)
    /\ LET date            == completeDates[dateIdx + 1]
           assetReturns    == MapGet(returnsByDate, date)
           rebalanceMonths == RebalanceMonthsOf(config)
           monthlyReturn   == WeightedReturn(currentWeights, config.assets,
                                             assetReturns, Len(config.assets))
           portfolioGrowth == Add(One, monthlyReturn)
           newWeights      == DriftedWeights(currentWeights, config.assets,
                                             assetReturns, portfolioGrowth)
           value           == Mul(cumulativeValue, portfolioGrowth)
           months          == monthsSinceRebalance + 1
           shouldRebalance == ShouldRebalance(rebalanceMonths, months)
           carried         == WeightsCarried(shouldRebalance, config.weights, newWeights)
       IN  /\ cumulativeValue' = value
           /\ monthsSinceRebalance' = IF shouldRebalance THEN 0 ELSE months
           /\ currentWeights' = carried
           /\ config' = ConfigAfterWeightWrites(config, carried)
           /\ monthlyReturns' = Append(monthlyReturns,
                 MonthlyRecord(date, monthlyReturn, value, config.assets, assetReturns,
                               currentWeights, carried, shouldRebalance))
    /\ dateIdx' = dateIdx + 1
    /\ pc' = IF dateIdx + 1 = Len(completeDates) THEN "check" ELSE "loop"
    /\ UNCHANGED <<serviceVars, completedCalls, returns, returnsByDate, completeDates, timeSeries,
                   metrics, result, error>>

\* the time series built without the empty-result guard
CheckEmpty_NoGuard ==
    /\ pc = "check"
    /\ pc' = "metrics"
    /\ timeSeries' = [i \in 1..Len(monthlyReturns) |->
                        [date  |-> monthlyReturns[i].date,
                         value |-> monthlyReturns[i].cumulativeValue]]
    /\ UNCHANGED <<serviceVars, completedCalls, config, returns, returnsByDate, completeDates, dateIdx,
                   cumulativeValue, currentWeights, monthsSinceRebalance,
                   monthlyReturns, metrics, result, error>>

\* the time series built from the monthly returns in place of the values
CheckEmpty_SeriesOfReturns ==
    /\ pc = "check"
    /\ IF Len(monthlyReturns) = 0
       THEN /\ pc' = "threw"
            /\ error' = <<"No overlapping data found for all assets in date range">>
            /\ timeSeries' = timeSeries
       ELSE /\ pc' = "metrics"
            /\ error' = error
            /\ timeSeries' = [i \in 1..Len(monthlyReturns) |->
                                [date  |-> monthlyReturns[i].date,
                                 value |-> monthlyReturns[i].portfolioReturn]]
    /\ UNCHANGED <<serviceVars, completedCalls, config, returns, returnsByDate, completeDates,
                   dateIdx, cumulativeValue, currentWeights, monthsSinceRebalance,
                   monthlyReturns, metrics, result>>

\* the empty-result guard and the time series of calculatePortfolio
CheckEmpty ==
    /\ pc = "check"
    /\ IF Len(monthlyReturns) = 0
       THEN /\ pc' = "threw"
            /\ error' = <<"No overlapping data found for all assets in date range">>
            /\ timeSeries' = timeSeries
       ELSE /\ pc' = "metrics"
            /\ error' = error
            /\ timeSeries' = [i \in 1..Len(monthlyReturns) |->
                                [date  |-> monthlyReturns[i].date,
                                 value |-> monthlyReturns[i].cumulativeValue]]
    /\ UNCHANGED <<serviceVars, completedCalls, config, returns, returnsByDate, completeDates, dateIdx,
                   cumulativeValue, currentWeights, monthsSinceRebalance,
                   monthlyReturns, metrics, result>>

\* calculateMetrics without the empty-sequence throw
Metrics_NoThrow ==
    /\ pc = "metrics"
    /\ pc' = "assemble"
    /\ metrics' = IF Len(monthlyReturns) = 0
                  THEN [numMonths |-> 0]
                  ELSE calculateMetrics(monthlyReturns)
    /\ UNCHANGED <<serviceVars, completedCalls, config, returns, returnsByDate, completeDates, dateIdx,
                   cumulativeValue, currentWeights, monthsSinceRebalance,
                   monthlyReturns, timeSeries, result, error>>

\* const metrics = calculateMetrics(monthlyReturns, riskFreeRate); the
\* function throws on an empty sequence
Metrics ==
    /\ pc = "metrics"
    /\ IF Len(monthlyReturns) = 0
       THEN /\ pc' = "threw"
            /\ error' = <<"Cannot calculate metrics with no return data">>
            /\ metrics' = metrics
       ELSE /\ pc' = "assemble"
            /\ error' = error
            /\ metrics' = calculateMetrics(monthlyReturns)
    /\ UNCHANGED <<serviceVars, completedCalls, config, returns, returnsByDate, completeDates, dateIdx,
                   cumulativeValue, currentWeights, monthsSinceRebalance,
                   monthlyReturns, timeSeries, result>>

\* the records returned before the time series and the metrics are attached
Return_RecordsOnly ==
    /\ pc = "assemble"
    /\ result' = [config |-> config, monthlyReturns |-> monthlyReturns,
                  timeSeries |-> <<>>, metrics |-> Undefined]
    /\ pc' = "done"
    /\ UNCHANGED <<serviceVars, completedCalls, config, returns, returnsByDate, completeDates, dateIdx,
                   cumulativeValue, currentWeights, monthsSinceRebalance,
                   monthlyReturns, timeSeries, metrics, error>>

\* return { config, monthlyReturns, timeSeries, metrics }
Return ==
    /\ pc = "assemble"
    /\ result' = [config |-> config, monthlyReturns |-> monthlyReturns,
                  timeSeries |-> timeSeries, metrics |-> metrics]
    /\ pc' = "done"
    /\ UNCHANGED <<serviceVars, completedCalls, config, returns, returnsByDate, completeDates, dateIdx,
                   cumulativeValue, currentWeights, monthsSinceRebalance,
                   monthlyReturns, timeSeries, metrics, error>>

Next == Validate \/ Group \/ BeginReturns \/ LoopStep \/ CheckEmpty \/ Metrics \/ Return

Spec == Init /\ [][Next]_vars

-----------------------------------------------------------------------------
(* calculateMetrics called directly on a record sequence *)

\* cumulative values of the records handed to calculateMetrics
DirectValues ==
    { Zero, Num(1, 2), One, Num(3, 2),
      Num(2000001, 1000000), Num(2000002, 1000000) }

\* monthly returns of the records handed to calculateMetrics: 0, 0.1 and -0.5
DirectReturns == { Zero, Num(1, 10), Num(-1, 2) }

\* a record carrying the given monthly return and cumulative value
DirectRecord(date, return, value) ==
    [date                   |-> date,
     portfolioReturn        |-> return,
     cumulativeValue        |-> value,
     assetReturns           |-> ByAsset(<<"X">>, <<Zero>>),
     weightsBeforeRebalance |-> ByAsset(<<"X">>, <<One>>),
     weightsAfterRebalance  |-> ByAsset(<<"X">>, <<One>>),
     wasRebalanced          |-> FALSE]

DirectSequences ==
    { [i \in 1..Len(vs) |-> DirectRecord(i, vs[i][1], vs[i][2])] :
        vs \in UNION { [1..n -> DirectReturns \X DirectValues] : n \in 0..MaxRecords } }

\* calculateMetrics takes no config and no return rows: both are Undefined
InitMetrics ==
    /\ config = Undefined
    /\ returns = Undefined
    /\ pc = "metrics"
    /\ returnsByDate = <<>>
    /\ completeDates = <<>>
    /\ dateIdx = 0
    /\ cumulativeValue = Undefined
    /\ currentWeights = <<>>
    /\ monthsSinceRebalance = 0
    /\ monthlyReturns \in DirectSequences
    /\ timeSeries = <<>>
    /\ metrics = Undefined
    /\ result = Undefined
    /\ error = Undefined
    /\ completedCalls = <<>>
    /\ ServiceIdle

NextMetrics == Metrics

SpecMetrics == InitMetrics /\ [][NextMetrics]_vars

-----------------------------------------------------------------------------
(* Successive calls of calculatePortfolio.  The function is synchronous, so
   the executions of two calls are one after the other, in either order.  A
   new call has its own arguments and outcome; the locals of the previous
   call keep whatever it left in them until the new call declares its own. *)

\* the configs of the successive calls
CallConfigs ==
    { [assets |-> <<"X", "Y">>, weights |-> << Num(1, 4), Num(3, 4) >>,
       rebalanceMonths |-> Num(2, 1)],
      [assets |-> <<"X">>, weights |-> << One >>, rebalanceMonths |-> Undefined],
      [assets |-> <<"X", "Y">>, weights |-> << Num(1, 2), Num(2, 5) >>,
       rebalanceMonths |-> Undefined] }

\* the return rows of the successive calls: no rows; one month; three months
\* listed by asset; two months with Y absent from both
CallFeeds ==
    LET up   == << [asset |-> "Y", return |-> Num(1, 8)], [asset |-> "X", return |-> Zero] >>
        swap == << [asset |-> "X", return |-> One], [asset |-> "Y", return |-> Num(-1, 2)] >>
        noY  == << [asset |-> "X", return |-> One], [asset |-> "X", return |-> Num(-1, 2)] >>
    IN  { <<>>,
          RowsAscending(<<swap>>, 1),
          RowsByAsset(<<up, swap, swap>>, 3),
          RowsDescending(<<noY, noY>>, 2) }

InitRepeated ==
    /\ config \in CallConfigs
    /\ returns \in CallFeeds
    /\ pc = "validate"
    /\ returnsByDate = <<>>
    /\ completeDates = <<>>
    /\ dateIdx = 0
    /\ cumulativeValue = Undefined
    /\ currentWeights = <<>>
    /\ monthsSinceRebalance = 0
    /\ monthlyReturns = <<>>
    /\ timeSeries = <<>>
    /\ metrics = Undefined
    /\ result = Undefined
    /\ error = Undefined
    /\ completedCalls = <<>>
    /\ ServiceIdle

\* the call has ended and calculatePortfolio is called again
NextCall ==
    /\ pc \in {"done", "threw"}
    /\ Len(completedCalls) + 1 < MaxCalls
    /\ completedCalls' = Append(completedCalls,
          [config |-> config, returns |-> returns, result |-> result, error |-> error])
    /\ config' \in CallConfigs
    /\ returns' \in CallFeeds
    /\ pc' = "validate"
    /\ result' = Undefined
    /\ error' = Undefined
    /\ UNCHANGED <<serviceVars, returnsByDate, completeDates, dateIdx,
                   cumulativeValue, currentWeights, monthsSinceRebalance,
                   monthlyReturns, timeSeries, metrics>>

NextRepeated == Next \/ NextCall

SpecRepeated == InitRepeated /\ [][NextRepeated]_vars

-----------------------------------------------------------------------------
(* Either exported entry point called: calculatePortfolio on a config and
   return rows, or calculateMetrics directly on a record sequence *)

InitCalls == Init \/ InitMetrics

NextCalls == Next

SpecCalls == InitCalls /\ [][NextCalls]_vars

-----------------------------------------------------------------------------
(* The inline simulation of the earlier calculate handlers: the statements
   between the feed query and the statistics of the POST handler, which
   group the rows and run the month loop on the request body itself.  The
   two copies of the handler hold the same statements; the line numbers are
   those of the later copy. *)

\* one iteration of the forEach that fills returnsByDate
InlineGroupRow(map, row) ==
    IF ~MapHas(map, row.date)
    THEN Append(map, [date |-> row.date,
                      assetReturns |-> InnerSet(EmptyInner, row.asset, row.return)])
    ELSE [i \in 1..Len(map) |->
            IF map[i].date = row.date
            THEN [date |-> map[i].date,
                  assetReturns |-> InnerSet(map[i].assetReturns, row.asset, row.return)]
            ELSE map[i]]

RECURSIVE InlineGroup(_)
InlineGroup(rows) ==
    IF rows = <<>> THEN <<>>
    ELSE InlineGroupRow(InlineGroup(SubSeq(rows, 1, Len(rows) - 1)), rows[Len(rows)])

\* the point pushed on monthlySeries before the loop: the month of startDate,
\* value 1.000000
BaselinePoint == [date |-> <<"startDate.slice(0, 7)">>, value |-> One]

\* the locals of the handler before the loop
InlineStart(body) ==
    [cumulativeReturn     |-> One,
     monthlySeries        |-> << BaselinePoint >>,
     currentWeights       |-> body.weights,
     monthsSinceRebalance |-> 0,
     monthlyReturns       |-> <<>>]

\* monthlyReturn after the first i assets
RECURSIVE InlineMonthlyReturn(_, _, _, _)
InlineMonthlyReturn(weights, assets, assetReturns, i) ==
    IF i = 0 THEN Zero
    ELSE Add(InlineMonthlyReturn(weights, assets, assetReturns, i - 1),
             Mul(weights[i], AssetReturnOf(assetReturns, assets[i])))

\* the iteration with the drifted weights kept on a rebalance month, as the
\* CSV log of the handler records them
InlineStep_KeepsDrift(st, entry, body) ==
    IF ~HasAllAssets(entry.assetReturns, body.assets) THEN st
    ELSE LET rebalanceMonths == IF body.rebalanceMonths = Undefined
                                THEN Num(-1, 1) ELSE body.rebalanceMonths
             monthlyReturn   == InlineMonthlyReturn(st.currentWeights, body.assets,
                                    entry.assetReturns, Len(body.assets))
             portfolioGrowth == Add(One, monthlyReturn)
             newWeights      == [i \in 1..Len(body.assets) |->
                                    Div(Mul(st.currentWeights[i],
                                            Add(One, AssetReturnOf(entry.assetReturns,
                                                                   body.assets[i]))),
                                        portfolioGrowth)]
             cumulative      == Mul(st.cumulativeReturn, portfolioGrowth)
             months          == st.monthsSinceRebalance + 1
             shouldRebalance == Gt(rebalanceMonths, Zero)
                                    /\ Ge(Num(months, 1), rebalanceMonths)
         IN  [cumulativeReturn     |-> cumulative,
              monthlySeries        |-> Append(st.monthlySeries,
                                          [date |-> entry.date,
                                           value |-> ToFixed(cumulative, 6)]),
              currentWeights       |-> newWeights,
              monthsSinceRebalance |-> IF shouldRebalance THEN 0 ELSE months,
              monthlyReturns       |-> Append(st.monthlyReturns,
                                          [date |-> entry.date, return |-> monthlyReturn])]

\* one iteration of for (const [date, assetReturns] of returnsByDate)
InlineStep(st, entry, body) ==
    IF ~HasAllAssets(entry.assetReturns, body.assets) THEN st
    ELSE LET rebalanceMonths == IF body.rebalanceMonths = Undefined
                                THEN Num(-1, 1) ELSE body.rebalanceMonths
             monthlyReturn   == InlineMonthlyReturn(st.currentWeights, body.assets,
                                    entry.assetReturns, Len(body.assets))
             portfolioGrowth == Add(One, monthlyReturn)
             newWeights      == [i \in 1..Len(body.assets) |->
                                    Div(Mul(st.currentWeights[i],
                                            Add(One, AssetReturnOf(entry.assetReturns,
                                                                   body.assets[i]))),
                                        portfolioGrowth)]
             cumulative      == Mul(st.cumulativeReturn, portfolioGrowth)
             months          == st.monthsSinceRebalance + 1
             shouldRebalance == Gt(rebalanceMonths, Zero)
                                    /\ Ge(Num(months, 1), rebalanceMonths)
         IN  [cumulativeReturn     |-> cumulative,
              monthlySeries        |-> Append(st.monthlySeries,
                                          [date |-> entry.date,
                                           value |-> ToFixed(cumulative, 6)]),
              currentWeights       |-> IF shouldRebalance
                                       THEN [i \in 1..Len(body.assets) |-> body.weights[i]]
                                       ELSE newWeights,
              monthsSinceRebalance |-> IF shouldRebalance THEN 0 ELSE months,
              monthlyReturns       |-> Append(st.monthlyReturns,
                                          [date |-> entry.date, return |-> monthlyReturn])]

\* the locals of the handler after the first j entries of the map, in the
\* insertion order the for-of loop follows
RECURSIVE InlineAfter(_, _, _)
InlineAfter(map, body, j) ==
    IF j = 0 THEN InlineStart(body)
    ELSE InlineStep(InlineAfter(map, body, j - 1), map[j], body)

-----------------------------------------------------------------------------
(* generateCSV.  A string is modelled as the sequence of its pieces: a piece
   is the separator ",", the line break "\n", or the text of one value.  The
   asset identifiers, the date keys and the digits written by toFixed hold
   neither a comma nor a line break, so the text of a value is one piece. *)

Comma   == <<",">>
Newline == <<"\n">>

\* a string literal or an asset identifier
Text(s) == << <<"text", s>> >>

\* the template string `${a}${suffix}`
Suffixed(a, suffix) == << <<"text", a, suffix>> >>

\* entry.date, a string already
DateText(date) == << <<"date", date>> >>

\* value.toFixed(6): the decimal digits of the value rounded to 6 places
FixedText(value) == << <<"fixed", ToFixed(value, 6)>> >>

\* rec[asset]?.toFixed(6) || '0'
FixedOrZero(rec, asset) ==
    IF asset \in DOMAIN rec THEN FixedText(rec[asset]) ELSE Text("0")

\* Array.prototype.join
RECURSIVE Join(_, _)
Join(items, separator) ==
    IF Len(items) = 0 THEN <<>>
    ELSE IF Len(items) = 1 THEN items[1]
    ELSE Join(SubSeq(items, 1, Len(items) - 1), separator)
            \o <<separator>> \o items[Len(items)]

\* the headers array of lines 364-371
CsvHeaders(assets) ==
    Text("Date")
        \o [i \in 1..Len(assets) |-> Text(assets[i])[1]]
        \o Text("Portfolio_Return")
        \o [i \in 1..Len(assets) |-> Suffixed(assets[i], "_Weight_Before")[1]]
        \o [i \in 1..Len(assets) |-> Suffixed(assets[i], "_Weight_After")[1]]
        \o Text("Rebalanced")

\* the rowData array of one record, lines 379-400
CsvRowData(entry, assets) ==
    DateText(entry.date)
        \o [i \in 1..Len(assets) |-> FixedOrZero(entry.assetReturns, assets[i])[1]]
        \o FixedText(entry.portfolioReturn)
        \o [i \in 1..Len(assets) |-> FixedOrZero(entry.weightsBeforeRebalance, assets[i])[1]]
        \o [i \in 1..Len(assets) |-> FixedOrZero(entry.weightsAfterRebalance, assets[i])[1]]
        \o Text(IF entry.wasRebalanced THEN "YES" ELSE "NO")

\* an array of one-piece strings joined with ","
JoinFields(fields) == Join([i \in 1..Len(fields) |-> <<fields[i]>>], Comma)

\* every row followed by a line break, as the csv += row + '\n' of the
\* handlers' own generateCSV does
generateCSV_TrailingNewline(results) ==
    LET assets == results.config.assets
        recs   == results.monthlyReturns
        rows   == [i \in 1..(Len(recs) + 1) |->
                      IF i = 1 THEN JoinFields(CsvHeaders(assets))
                      ELSE JoinFields(CsvRowData(recs[i - 1], assets))]
    IN  Join(rows, Newline) \o <<Newline>>

\* generateCSV(results)
generateCSV(results) ==
    LET assets == results.config.assets
        recs   == results.monthlyReturns
        rows   == [i \in 1..(Len(recs) + 1) |->
                      IF i = 1 THEN JoinFields(CsvHeaders(assets))
                      ELSE JoinFields(CsvRowData(recs[i - 1], assets))]
    IN  Join(rows, Newline)

\* generateCSV called on the results calculatePortfolio returned
GenerateCSV ==
    /\ pc = "done"
    /\ csv = Undefined
    /\ csv' = generateCSV(result)
    /\ UNCHANGED <<coreVars, handlerVars, fetchVars, dataServiceVars, addAssetVars>>

NextCSV == Next \/ GenerateCSV

SpecCSV == Init /\ [][NextCSV]_vars

-----------------------------------------------------------------------------
(* Vocabulary of the properties *)

RequestedAssets == { config.assets[i] : i \in 1..Len(config.assets) }

\* the feed has a row for this asset on this date
HasRow(date, asset) ==
    \E i \in 1..Len(returns) : returns[i].date = date /\ returns[i].asset = asset

\* every requested asset has a row on this date
DateIsComplete(date) == \A a \in RequestedAssets : HasRow(date, a)

MapDates == { returnsByDate[i].date : i \in 1..Len(returnsByDate) }

\* calculatePortfolioReturns has been entered and completeDates computed
InReturns == pc \in {"loop", "check", "metrics", "assemble", "done"}

\* the config weight of each asset, by asset name
ConfigWeightOf == ByAsset(config.assets, config.weights)

\* the cadence N when rebalanceMonths is a positive integer, 0 otherwise
Cadence ==
    LET r == RebalanceMonthsOf(config)
    IN  IF r[2] = 1 /\ r[1] >= 1 THEN r[1] ELSE 0

\* the drifted weight of an asset recomputed from the fields of a record
DriftOf(rec, a) ==
    Div(Mul(rec.weightsBeforeRebalance[a], Add(One, rec.assetReturns[a])),
        Add(One, rec.portfolioReturn))

-----------------------------------------------------------------------------
(* C1: getCompleteDates returns exactly the date keys whose per-date map has
   an entry for every requested asset, each once, in ascending order; a date
   on which some requested asset has no row appears neither in that result
   nor in any record of monthlyReturns nor in any point of timeSeries. *)
C1_CompleteDatesExact ==
    /\ InReturns =>
          /\ \A i, j \in 1..Len(completeDates) :
                i < j => completeDates[i] < completeDates[j]
          /\ { completeDates[i] : i \in 1..Len(completeDates) }
                = { d \in MapDates :
                      \A a \in RequestedAssets : a \in DOMAIN MapGet(returnsByDate, d) }
          /\ \A i \in 1..Len(completeDates) : DateIsComplete(completeDates[i])
    /\ \A k \in 1..Len(monthlyReturns) : DateIsComplete(monthlyReturns[k].date)
    /\ \A k \in 1..Len(timeSeries) : DateIsComplete(timeSeries[k].date)

\* a finished run over a feed listed in descending date order, with two
\* complete dates and one date dropped for a missing asset
C1_Witness ==
    /\ pc = "done"
    /\ Len(completeDates) = 2
    /\ Len(returnsByDate) = 3
    /\ returnsByDate[1].date > returnsByDate[2].date
    /\ \E d \in MapDates : ~DateIsComplete(d)
    /\ Len(result.timeSeries) = 2

(* C2: every record with wasRebalanced = true has weightsAfterRebalance equal
   to the config weights, asset by asset, whatever the returns were. *)
C2_RebalanceResetsExactly ==
    \A k \in 1..Len(monthlyReturns) :
        monthlyReturns[k].wasRebalanced =>
            \A a \in RequestedAssets :
                monthlyReturns[k].weightsAfterRebalance[a] = ConfigWeightOf[a]

\* a rebalance record that was entered with drifted weights and whose own
\* drift differs from the config weights
C2_Witness ==
    \E k \in 1..Len(monthlyReturns) :
        /\ monthlyReturns[k].wasRebalanced
        /\ monthlyReturns[k].weightsBeforeRebalance # ConfigWeightOf
        /\ \E a \in RequestedAssets :
              /\ IsFinite(DriftOf(monthlyReturns[k], a))
              /\ DriftOf(monthlyReturns[k], a) # ConfigWeightOf[a]

(* C3: for rebalanceMonths = N > 0 the k-th record (k counted over complete
   months only) has wasRebalanced = true iff k is a multiple of N; the
   months-since-rebalance counter is 0 after exactly those records and its
   incremented value never exceeds N; for N = 1 every record is a rebalance
   record with weightsAfterRebalance equal to the config weights. *)
C3_RebalanceCadence ==
    (Cadence > 0 /\ InReturns) =>
        /\ \A k \in 1..Len(monthlyReturns) :
              monthlyReturns[k].wasRebalanced <=> (k % Cadence = 0)
        /\ monthsSinceRebalance = Len(monthlyReturns) % Cadence
        /\ monthsSinceRebalance + 1 <= Cadence
        /\ Cadence = 1 =>
              \A k \in 1..Len(monthlyReturns) :
                  /\ monthlyReturns[k].wasRebalanced
                  /\ monthlyReturns[k].weightsAfterRebalance = ConfigWeightOf

\* cadence 2 over two complete months separated by a calendar gap: the
\* second record is the rebalance record
C3_Witness ==
    /\ Cadence = 2
    /\ Len(monthlyReturns) = 2
    /\ monthlyReturns[2].date - monthlyReturns[1].date > 1
    /\ ~monthlyReturns[1].wasRebalanced
    /\ monthlyReturns[2].wasRebalanced
    /\ monthsSinceRebalance = 0

(* C4: with rebalanceMonths -1 or omitted no record has wasRebalanced = true,
   every record's weightsAfterRebalance is the drifted weight vector of its
   month, and that vector is the next record's weightsBeforeRebalance. *)
C4_NeverRebalance ==
    (config.rebalanceMonths \in {Undefined, Num(-1, 1)}) =>
        \A k \in 1..Len(monthlyReturns) :
            /\ ~monthlyReturns[k].wasRebalanced
            /\ \A a \in RequestedAssets :
                  monthlyReturns[k].weightsAfterRebalance[a] = DriftOf(monthlyReturns[k], a)
            /\ k > 1 => monthlyReturns[k].weightsBeforeRebalance
                            = monthlyReturns[k - 1].weightsAfterRebalance

\* rebalanceMonths omitted, three months, the weights drifting further each month
C4_Witness ==
    /\ config.rebalanceMonths = Undefined
    /\ Len(monthlyReturns) = 3
    /\ monthlyReturns[2].weightsBeforeRebalance # ConfigWeightOf
    /\ monthlyReturns[3].weightsBeforeRebalance # monthlyReturns[2].weightsBeforeRebalance
    /\ monthlyReturns[3].weightsAfterRebalance # monthlyReturns[3].weightsBeforeRebalance

-----------------------------------------------------------------------------
(* Vocabulary of the numerical properties *)

\* the sum of a Record<asset, number> over the config's assets
SumByAsset(f) == SumSeq([i \in 1..Len(config.assets) |-> f[config.assets[i]]])

\* the tolerance granted to double rounding
RoundingTolerance == Num(1, 1000000000)

WithinTolerance(a, b) == Le(MathAbs(Sub(a, b)), RoundingTolerance)

\* e = a * b, decided on the lowest-terms factors without forming a product
IsProductOf(e, a, b) ==
    IF ~IsFinite(a) \/ ~IsFinite(b) \/ ~IsFinite(e) THEN e = Mul(a, b)
    ELSE IF a[1] = 0 \/ b[1] = 0 THEN e = Zero
    ELSE LET g1 == GCD(Abs(a[1]), b[2])
             g2 == GCD(Abs(b[1]), a[2])
             an == Abs(a[1]) \div g1
             bn == Abs(b[1]) \div g2
             ad == a[2] \div g2
             bd == b[2] \div g1
         IN  /\ Sign(e[1]) = Sign(a[1]) * Sign(b[1])
             /\ Abs(e[1]) % an = 0 /\ Abs(e[1]) \div an = bn
             /\ e[2] % ad = 0 /\ e[2] \div ad = bd

\* the full-precision running product 1.0 * (1 + r_1) * ... * (1 + r_t) of
\* the portfolio returns stored in the records
RECURSIVE FullValue(_, _)
FullValue(records, t) ==
    IF t = 0 THEN One
    ELSE Mul(FullValue(records, t - 1), Add(One, records[t].portfolioReturn))

\* the growth factor of some month up to t was 0
ZeroGrowthUpTo(records, t) ==
    \E j \in 1..t : Add(One, records[j].portfolioReturn) = Zero

(* C5: for every accepted config and every record with wasRebalanced = false
   the sums of weightsAfterRebalance and of weightsBeforeRebalance are equal
   and both are 1.0 up to rounding tolerance.  (The claim as stated.) *)
C5_Original ==
    \A k \in 1..Len(monthlyReturns) :
        ~monthlyReturns[k].wasRebalanced =>
            /\ WithinTolerance(SumByAsset(monthlyReturns[k].weightsBeforeRebalance), One)
            /\ WithinTolerance(SumByAsset(monthlyReturns[k].weightsAfterRebalance), One)
            /\ WithinTolerance(SumByAsset(monthlyReturns[k].weightsAfterRebalance),
                               SumByAsset(monthlyReturns[k].weightsBeforeRebalance))

(* C5 amended: for every config whose weights sum to exactly 1.0 and every
   record with wasRebalanced = false up to which no month had a growth factor
   of 0, the sums of weightsBeforeRebalance and of weightsAfterRebalance are
   both 1.0. *)
C5_WeightConservation ==
    (SumSeq(config.weights) = One) =>
        \A k \in 1..Len(monthlyReturns) :
            (~monthlyReturns[k].wasRebalanced /\ ~ZeroGrowthUpTo(monthlyReturns, k)) =>
                /\ SumByAsset(monthlyReturns[k].weightsBeforeRebalance) = One
                /\ SumByAsset(monthlyReturns[k].weightsAfterRebalance) = One

\* a two-asset config of sum 1.0 in its second unrebalanced month, entered
\* with drifted weights and drifting again
C5_Witness ==
    /\ SumSeq(config.weights) = One
    /\ Len(config.assets) = 2
    /\ Len(monthlyReturns) >= 2
    /\ ~monthlyReturns[2].wasRebalanced
    /\ ~ZeroGrowthUpTo(monthlyReturns, 2)
    /\ monthlyReturns[2].weightsBeforeRebalance # ConfigWeightOf
    /\ monthlyReturns[2].weightsAfterRebalance # monthlyReturns[2].weightsBeforeRebalance
    /\ \A a \in RequestedAssets : monthlyReturns[2].weightsAfterRebalance[a][1] # 0

(* C6: the first record's cumulativeValue equals 1.0 * (1 + portfolioReturn)
   and every later record's cumulativeValue equals the previous record's
   cumulativeValue * (1 + its portfolioReturn), on the stored values.
   (The claim as stated.) *)
C6_Original ==
    \A t \in 1..Len(monthlyReturns) :
        IsProductOf(monthlyReturns[t].cumulativeValue,
                    IF t = 1 THEN One ELSE monthlyReturns[t - 1].cumulativeValue,
                    Add(One, monthlyReturns[t].portfolioReturn))

(* C6 amended: every record's stored cumulativeValue is the 6-decimal
   rounding of the full-precision running product 1.0 * (1 + r_1) * ... *
   (1 + r_t) of the stored portfolio returns, and the simulator's accumulator
   is that unrounded product. *)
C6_CumulativeValueRounded ==
    /\ \A t \in 1..Len(monthlyReturns) :
          monthlyReturns[t].cumulativeValue = ToFixed(FullValue(monthlyReturns, t), 6)
    /\ pc = "loop" => cumulativeValue = FullValue(monthlyReturns, Len(monthlyReturns))

\* a record whose stored value is not the full-precision product, following
\* a record whose stored value is exact
C6_Witness ==
    \E t \in 2..Len(monthlyReturns) :
        /\ IsFinite(monthlyReturns[t].cumulativeValue)
        /\ monthlyReturns[t].cumulativeValue # FullValue(monthlyReturns, t)
        /\ monthlyReturns[t - 1].cumulativeValue = FullValue(monthlyReturns, t - 1)

-----------------------------------------------------------------------------
(* Vocabulary of the drawdown property *)

\* the cumulative values stored in the records, in order
StoredValues == [i \in 1..Len(monthlyReturns) |-> monthlyReturns[i].cumulativeValue]

NonDecreasing(values) ==
    \A i \in 1..(Len(values) - 1) : Le(values[i], values[i + 1])

\* the largest of the baseline 1.0 and the first t stored values
PeakAt(t) ==
    CHOOSE p \in {One} \cup { StoredValues[i] : i \in 1..t } :
        \A q \in {One} \cup { StoredValues[i] : i \in 1..t } : Le(q, p)

\* calculateMetrics has returned its metrics for a non-empty sequence
MetricsReturned == pc = "assemble" /\ Len(monthlyReturns) > 0

\* half a unit of the sixth decimal
HalfUnit == Num(1, 2000000)

(* C7: for every non-empty record sequence calculateMetrics returns
   maxDrawdown <= 0, and maxDrawdown = 0 iff the sequence of the records'
   cumulativeValue values is non-decreasing.  (The claim as stated.) *)
C7_Original ==
    MetricsReturned =>
        /\ Le(metrics.maxDrawdown, Zero)
        /\ (metrics.maxDrawdown = Zero) <=> NonDecreasing(StoredValues)

(* C7 amended: for every non-empty record sequence whose cumulativeValue
   values are all finite, calculateMetrics returns maxDrawdown <= 0;
   maxDrawdown = 0 whenever the sequence made of the baseline 1.0 followed by
   the cumulativeValue values is non-decreasing; and whenever maxDrawdown = 0
   every value lies less than 0.0000005 (as a fraction of the running peak,
   which starts at 1.0) below the running peak. *)
C7_DrawdownBound ==
    (MetricsReturned /\ \A i \in 1..Len(StoredValues) : IsFinite(StoredValues[i])) =>
        /\ Le(metrics.maxDrawdown, Zero)
        /\ NonDecreasing(<<One>> \o StoredValues) => metrics.maxDrawdown = Zero
        /\ metrics.maxDrawdown = Zero =>
              \A t \in 1..Len(StoredValues) :
                  Lt(Div(Sub(PeakAt(t), StoredValues[t]), PeakAt(t)), HalfUnit)

\* a strictly decreasing pair above the baseline whose drawdown rounds to 0
C7_Witness ==
    /\ MetricsReturned
    /\ StoredValues = << Num(2000002, 1000000), Num(2000001, 1000000) >>
    /\ metrics.maxDrawdown = Zero

-----------------------------------------------------------------------------
(* Vocabulary of the validation and error properties *)

\* the five rules of the validation, in order
RuleAssets == Len(config.assets) > 0

RuleWeights == Len(config.weights) > 0

RuleSameLength == Len(config.assets) = Len(config.weights)

RuleWeightSum ==
    /\ Le(Sub(SumSeq(config.weights), One), Num(1, 100))
    /\ Le(Sub(One, SumSeq(config.weights)), Num(1, 100))

RuleCadence ==
    \/ config.rebalanceMonths = Undefined
    \/ config.rebalanceMonths = Num(-1, 1)
    \/ (config.rebalanceMonths[2] = 1 /\ config.rebalanceMonths[1] >= 1)

\* the message of the first violated rule
FirstViolation ==
    IF ~RuleAssets THEN <<"At least one asset is required">>
    ELSE IF ~RuleWeights THEN <<"Weights array is required">>
    ELSE IF ~RuleSameLength
    THEN <<"Assets and weights arrays must have the same length">>
    ELSE IF ~RuleWeightSum
    THEN <<"Weights must sum to 1.0 (currently ", ToFixed(SumSeq(config.weights), 3), ")">>
    ELSE <<"rebalanceMonths must be -1 (never) or a positive integer">>

AllRules == RuleAssets /\ RuleWeights /\ RuleSameLength /\ RuleWeightSum /\ RuleCadence

NoOverlapMessage == <<"No overlapping data found for all assets in date range">>

FeedDates == { returns[i].date : i \in 1..Len(returns) }

\* no date has a return for every requested asset
NoCompleteDate == ~ \E d \in FeedDates : DateIsComplete(d)

\* every return of the feed is zero
AllReturnsZero == \A i \in 1..Len(returns) : returns[i].return = Zero

(* C8: validatePortfolioConfig returns valid exactly when assets is non-empty,
   weights is non-empty, both have the same length, the weight sum is within
   0.01 of 1.0 and rebalanceMonths is omitted, -1 or a positive integer;
   otherwise it returns invalid with the message of the first violated rule
   in that order; calculatePortfolio proceeds past validation exactly for the
   valid configs. *)
C8_ValidationRules ==
    /\ validatePortfolioConfig(config).valid <=> AllRules
    /\ ~AllRules => validatePortfolioConfig(config).error = FirstViolation
    /\ pc # "validate" =>
          IF AllRules THEN error \in {Undefined, NoOverlapMessage}
          ELSE pc = "threw" /\ error = FirstViolation

\* weights [0.5, 0.4] for two assets rejected with the weight-sum message
C8_Witness ==
    /\ config.assets = <<"X", "Y">>
    /\ config.weights = << Num(1, 2), Num(2, 5) >>
    /\ pc = "threw"
    /\ error = <<"Weights must sum to 1.0 (currently ", Num(9, 10), ")">>

(* C9: calculatePortfolio called with a config the validation rejects throws
   an error carrying the validation message before any return record is
   grouped and before any simulation step, and returns no result, whatever
   the return data is. *)
C9_InvalidConfigThrowsFirst ==
    ~validatePortfolioConfig(config).valid =>
        /\ pc \in {"validate", "threw"}
        /\ pc = "threw" => error = validatePortfolioConfig(config).error
        /\ returnsByDate = <<>>
        /\ completeDates = <<>>
        /\ monthlyReturns = <<>>
        /\ timeSeries = <<>>
        /\ metrics = Undefined
        /\ result = Undefined

\* a rejected config with empty return data: the config error is the one thrown
C9_Witness ==
    /\ ~validatePortfolioConfig(config).valid
    /\ returns = <<>>
    /\ pc = "threw"
    /\ error # NoOverlapMessage
    /\ error # Undefined

(* C10: with a valid config calculatePortfolio throws the no-overlapping-data
   error iff no date has a return for every requested asset; a feed whose
   returns are all zero, with a complete date, yields records with
   portfolioReturn 0 and cumulativeValue 1; a returned result never has an
   empty monthlyReturns. *)
C10_EmptyResultError ==
    validatePortfolioConfig(config).valid =>
        /\ pc = "threw" => (error = NoOverlapMessage /\ NoCompleteDate)
        /\ (NoCompleteDate /\ pc # "validate") =>
              pc \in {"group", "returns", "check", "threw"}
        /\ pc = "done" =>
              /\ ~NoCompleteDate
              /\ Len(result.monthlyReturns) > 0
              /\ AllReturnsZero =>
                    \A k \in 1..Len(result.monthlyReturns) :
                        /\ result.monthlyReturns[k].portfolioReturn = Zero
                        /\ result.monthlyReturns[k].cumulativeValue = One

\* a flat portfolio over two complete dates, returned without error
C10_Witness ==
    /\ pc = "done"
    /\ AllReturnsZero
    /\ error = Undefined
    /\ Len(result.monthlyReturns) = 2
    /\ result.monthlyReturns[2].cumulativeValue = One

-----------------------------------------------------------------------------
(* Vocabulary of the entry points *)

\* the run is a call of calculatePortfolio (it has a config)
InCalculatePortfolio == config # Undefined

\* the run is a direct call of calculateMetrics
InCalculateMetrics == config = Undefined

NoDataMessage == <<"Cannot calculate metrics with no return data">>

(* C11: calculateMetrics called on an empty record sequence throws 'Cannot
   calculate metrics with no return data' and returns no metrics; and in no
   execution of calculatePortfolio, for any config and any return data, is
   calculateMetrics reached with an empty sequence (so that error is never
   the one calculatePortfolio throws). *)
C11_NoDataError ==
    /\ (InCalculateMetrics /\ monthlyReturns = <<>> /\ pc # "metrics") =>
          /\ pc = "threw"
          /\ error = NoDataMessage
          /\ metrics = Undefined
    /\ (InCalculateMetrics /\ pc = "threw") => monthlyReturns = <<>>
    /\ InCalculatePortfolio =>
          /\ pc \in {"metrics", "assemble", "done"} => Len(monthlyReturns) > 0
          /\ error # NoDataMessage

\* the direct call on the empty sequence has thrown
C11_Witness ==
    /\ InCalculateMetrics
    /\ monthlyReturns = <<>>
    /\ pc = "threw"
    /\ error = NoDataMessage

-----------------------------------------------------------------------------
(* Vocabulary of the rounding property *)

\* the records with each stored cumulativeValue replaced by the simulator's
\* full-precision value at that month
FullPrecisionRecords ==
    [t \in 1..Len(monthlyReturns) |->
        [monthlyReturns[t] EXCEPT !.cumulativeValue = FullValue(monthlyReturns, t)]]

(* C12: rounding is applied only to emitted values and never to a value that
   is later an input to a metric: the totalReturn and maxDrawdown returned by
   calculateMetrics are those computed from the full-precision cumulative
   value accumulated by the simulator, not from the 6-decimal rounded
   cumulativeValue stored in the records.  (The claim as stated.) *)
C12_Original ==
    (InCalculatePortfolio /\ pc = "assemble") =>
        /\ metrics.totalReturn = ToFixed(Sub(cumulativeValue, One), 6)
        /\ metrics.maxDrawdown = ToFixed(DrawdownLoop(FullPrecisionRecords)[2], 6)

(* C13: calculatePortfolio and calculatePortfolioReturns leave the caller's
   config unchanged: no step of a run, with or without rebalancing and also
   on the way to a thrown error, changes config.assets, config.weights or
   config.rebalanceMonths, and the config returned inside the results is that
   same unmodified config; weight drift is tracked only in currentWeights. *)
C13_ConfigUnchanged ==
    /\ [][config' = config]_vars
    /\ [](pc = "done" => result.config = config)

\* a returned run with cadence 2 over three months: the weights drifted,
\* were reset and drifted again, and the working weights differ from the
\* config's at the end
C13_Witness ==
    /\ pc = "done"
    /\ Cadence = 2
    /\ Len(monthlyReturns) = 3
    /\ monthlyReturns[2].wasRebalanced
    /\ monthlyReturns[2].weightsBeforeRebalance # ConfigWeightOf
    /\ currentWeights # config.weights
    /\ result.config.weights = config.weights

-----------------------------------------------------------------------------
(* Vocabulary of the per-record properties *)

\* the blend recomputed from the fields of a record: the sum over the
\* config's assets of weightsBeforeRebalance[asset] * assetReturns[asset]
BlendOf(rec) ==
    SumSeq([i \in 1..Len(config.assets) |->
              Mul(rec.weightsBeforeRebalance[config.assets[i]],
                  rec.assetReturns[config.assets[i]])])

\* the blend the config weights would give on the returns of a record
ConfigBlendOf(rec) ==
    SumSeq([i \in 1..Len(config.assets) |->
              Mul(config.weights[i], rec.assetReturns[config.assets[i]])])

(* C14: for every record emitted by calculatePortfolioReturns, portfolioReturn
   equals the sum over the config's assets of weightsBeforeRebalance[asset] *
   assetReturns[asset] (the weights at entry to the month, not the original
   weights unless those are the entry weights); for a single asset of weight
   1.0 the portfolio return is that asset's return each month. *)
C14_BlendUsesEntryWeights ==
    InCalculatePortfolio =>
        \A k \in 1..Len(monthlyReturns) :
            /\ monthlyReturns[k].portfolioReturn = BlendOf(monthlyReturns[k])
            /\ (config.assets = <<"X">> /\ config.weights = <<One>>) =>
                  monthlyReturns[k].portfolioReturn = monthlyReturns[k].assetReturns["X"]

\* a month entered with drifted weights on which the config weights would
\* have given another portfolio return
C14_Witness ==
    /\ InCalculatePortfolio
    /\ \E k \in 2..Len(monthlyReturns) :
          /\ monthlyReturns[k].weightsBeforeRebalance # ConfigWeightOf
          /\ IsFinite(monthlyReturns[k].portfolioReturn)
          /\ monthlyReturns[k].portfolioReturn # Zero
          /\ monthlyReturns[k].portfolioReturn # ConfigBlendOf(monthlyReturns[k])

(* C15: for every record with wasRebalanced = false, weightsAfterRebalance[i]
   = weightsBeforeRebalance[i] * (1 + assetReturn_i) / (1 + portfolioReturn)
   for each asset i; weights [0.5, 0.5] with returns +0.10 and -0.10 give
   portfolio return 0 and weights-after 0.55 and 0.45. *)
C15_DriftFormula ==
    /\ InCalculatePortfolio =>
          \A k \in 1..Len(monthlyReturns) :
              ~monthlyReturns[k].wasRebalanced =>
                  \A a \in RequestedAssets :
                      monthlyReturns[k].weightsAfterRebalance[a] = DriftOf(monthlyReturns[k], a)
    /\ LET returnsOfMonth == [X |-> Num(1, 10), Y |-> Num(-1, 10)]
           halves         == << Num(1, 2), Num(1, 2) >>
           blend          == WeightedReturn(halves, <<"X", "Y">>, returnsOfMonth, 2)
       IN  /\ blend = Zero
           /\ DriftedWeights(halves, <<"X", "Y">>, returnsOfMonth, Add(One, blend))
                 = << Num(11, 20), Num(9, 20) >>

\* cadence 2: the unrebalanced third month starts from the reset weights and
\* drifts away from them, after a first month that drifted as well
C15_Witness ==
    /\ InCalculatePortfolio
    /\ Cadence = 2
    /\ Len(monthlyReturns) = 3
    /\ ~monthlyReturns[1].wasRebalanced
    /\ ~monthlyReturns[3].wasRebalanced
    /\ monthlyReturns[3].weightsBeforeRebalance = ConfigWeightOf
    /\ monthlyReturns[3].weightsAfterRebalance # ConfigWeightOf
    /\ monthlyReturns[1].weightsAfterRebalance # monthlyReturns[3].weightsAfterRebalance

(* C16: the first record's weightsBeforeRebalance equals the config weights,
   and every later record's weightsBeforeRebalance equals the previous
   record's weightsAfterRebalance. *)
C16_WeightsChain ==
    InCalculatePortfolio =>
        \A k \in 1..Len(monthlyReturns) :
            monthlyReturns[k].weightsBeforeRebalance
                = IF k = 1 THEN ConfigWeightOf
                  ELSE monthlyReturns[k - 1].weightsAfterRebalance

\* cadence 2 over three months: the second record starts from the first
\* month's drifted weights and the third from the config weights
C16_Witness ==
    /\ InCalculatePortfolio
    /\ Len(monthlyReturns) = 3
    /\ monthlyReturns[2].wasRebalanced
    /\ monthlyReturns[2].weightsBeforeRebalance # ConfigWeightOf
    /\ monthlyReturns[2].weightsBeforeRebalance # monthlyReturns[2].weightsAfterRebalance
    /\ monthlyReturns[3].weightsBeforeRebalance = ConfigWeightOf
    /\ monthlyReturns[3].weightsAfterRebalance # ConfigWeightOf

-----------------------------------------------------------------------------
(* Vocabulary of the order-independence property *)

\* at most one row per (asset, date) pair
NoDuplicatePairs(rows) ==
    \A i, j \in 1..Len(rows) :
        (rows[i].asset = rows[j].asset /\ rows[i].date = rows[j].date) => i = j

\* the rows of the given asset on the given date, in input order
RowsOfPair(rows, date, asset) ==
    SelectSeq(rows, LAMBDA r : r.date = date /\ r.asset = asset)

\* one fixed listing of a set of rows: by date, and by asset within a date;
\* every permutation of a duplicate-free feed has the same listing
RECURSIVE CanonicalUpTo(_, _)
CanonicalUpTo(rows, d) ==
    IF d = 0 THEN <<>>
    ELSE CanonicalUpTo(rows, d - 1) \o RowsOfPair(rows, d, "X") \o RowsOfPair(rows, d, "Y")

Canonical(rows) == CanonicalUpTo(rows, MaxDates)

\* the simulation after the first k complete dates, as a function of the
\* grouped returns and the config
RECURSIVE SimulationAfter(_, _, _, _)
SimulationAfter(map, cfg, dates, k) ==
    IF k = 0
    THEN [value |-> One, weights |-> cfg.weights, months |-> 0, records |-> <<>>]
    ELSE LET prev            == SimulationAfter(map, cfg, dates, k - 1)
             assetReturns    == MapGet(map, dates[k])
             monthlyReturn   == WeightedReturn(prev.weights, cfg.assets, assetReturns,
                                               Len(cfg.assets))
             portfolioGrowth == Add(One, monthlyReturn)
             newWeights      == DriftedWeights(prev.weights, cfg.assets, assetReturns,
                                               portfolioGrowth)
             value           == Mul(prev.value, portfolioGrowth)
             shouldRebalance == ShouldRebalance(RebalanceMonthsOf(cfg), prev.months + 1)
             carried         == WeightsCarried(shouldRebalance, cfg.weights, newWeights)
         IN  [value   |-> value,
              weights |-> carried,
              months  |-> IF shouldRebalance THEN 0 ELSE prev.months + 1,
              records |-> Append(prev.records,
                             MonthlyRecord(dates[k], monthlyReturn, value, cfg.assets,
                                           assetReturns, prev.weights, carried,
                                           shouldRebalance))]

\* the results of calculatePortfolio on the given rows, for a feed with a
\* complete date
ResultsOn(rows, cfg) ==
    LET map     == groupReturnsByDate(rows)
        dates   == getCompleteDates(map, cfg.assets)
        records == SimulationAfter(map, cfg, dates, Len(dates)).records
    IN  [config         |-> cfg,
         monthlyReturns |-> records,
         timeSeries     |-> [i \in 1..Len(records) |->
                               [date |-> records[i].date,
                                value |-> records[i].cumulativeValue]],
         metrics        |-> calculateMetrics(records)]

(* C17: the result of calculatePortfolio does not depend on the order of the
   input rows: for a feed with at most one row per (asset, date) pair the
   monthlyReturns, timeSeries and metrics are those of the same rows listed
   by date and asset, hence identical for all permutations of the feed.  With
   several rows for one pair, groupReturnsByDate keeps the return of the last
   one in input order. *)
C17_OrderIndependent ==
    InCalculatePortfolio =>
        /\ (pc = "done" /\ NoDuplicatePairs(returns)) =>
              result = ResultsOn(Canonical(returns), config)
        /\ \A i \in 1..Len(returnsByDate) :
              \A a \in DOMAIN returnsByDate[i].assetReturns :
                  LET same == RowsOfPair(returns, returnsByDate[i].date, a)
                  IN  returnsByDate[i].assetReturns[a] = same[Len(same)].return

\* a returned run over a duplicate-free feed whose rows are grouped by asset,
\* the dates first met in descending order, with three monthly records
C17_Witness ==
    /\ InCalculatePortfolio
    /\ pc = "done"
    /\ NoDuplicatePairs(returns)
    /\ returns # Canonical(returns)
    /\ returns[1].asset = returns[2].asset
    /\ returns[1].date > returns[2].date
    /\ Len(result.monthlyReturns) = 3
    /\ result.monthlyReturns[3].cumulativeValue # One

-----------------------------------------------------------------------------
(* Vocabulary of the successive calls *)

\* the error calculatePortfolio throws on the given arguments, Undefined if
\* it returns
ErrorOn(rows, cfg) ==
    IF ~validatePortfolioConfig(cfg).valid THEN validatePortfolioConfig(cfg).error
    ELSE IF getCompleteDates(groupReturnsByDate(rows), cfg.assets) = <<>>
    THEN NoOverlapMessage
    ELSE Undefined

\* the outcome of calculatePortfolio run alone on the given arguments
OutcomeOn(rows, cfg) ==
    [result |-> IF ErrorOn(rows, cfg) = Undefined THEN ResultsOn(rows, cfg) ELSE Undefined,
     error  |-> ErrorOn(rows, cfg)]

CallEnded == pc \in {"done", "threw"}

(* C18: calculatePortfolio is deterministic and free of shared state: a call
   returns (or throws) what it returns when run alone on its arguments,
   whatever call ran before it; two calls with equal arguments have equal
   outcomes; and the outcome of an ended call is not altered by a later
   call. *)
C18_NoSharedState ==
    /\ CallEnded => [result |-> result, error |-> error] = OutcomeOn(returns, config)
    /\ \A i \in 1..Len(completedCalls) :
          /\ [result |-> completedCalls[i].result, error |-> completedCalls[i].error]
                = OutcomeOn(completedCalls[i].returns, completedCalls[i].config)
          /\ (CallEnded /\ completedCalls[i].returns = returns
                        /\ completedCalls[i].config = config) =>
                (completedCalls[i].result = result /\ completedCalls[i].error = error)

\* a second call that returned one record after a first call, on other
\* arguments, that returned three
C18_Witness ==
    /\ Len(completedCalls) = 1
    /\ completedCalls[1].result # Undefined
    /\ Len(completedCalls[1].result.monthlyReturns) = 3
    /\ completedCalls[1].config # config
    /\ pc = "done"
    /\ Len(result.monthlyReturns) = 1

(* C19: a successful calculatePortfolio result contains exactly one monthly
   record per complete date, in strictly ascending date order with no date
   repeated; timeSeries has the same length as monthlyReturns with
   timeSeries[k].date = monthlyReturns[k].date and timeSeries[k].value =
   monthlyReturns[k].cumulativeValue; and metrics.numMonths is that length. *)
C19_ResultShape ==
    (InCalculatePortfolio /\ pc = "done") =>
        LET records == result.monthlyReturns
            series  == result.timeSeries
        IN  /\ { records[k].date : k \in 1..Len(records) }
                  = { d \in FeedDates : DateIsComplete(d) }
            /\ \A j, k \in 1..Len(records) : j < k => records[j].date < records[k].date
            /\ Len(series) = Len(records)
            /\ \A k \in 1..Len(records) :
                  /\ series[k].date = records[k].date
                  /\ series[k].value = records[k].cumulativeValue
            /\ result.metrics.numMonths = Len(records)

\* a returned run over a feed of three dates, one of them with X listed
\* twice and Y absent: two records, the value having moved
C19_Witness ==
    /\ InCalculatePortfolio
    /\ pc = "done"
    /\ Cardinality(FeedDates) = 3
    /\ ~NoDuplicatePairs(returns)
    /\ Len(result.monthlyReturns) = 2
    /\ result.metrics.numMonths = 2
    /\ result.timeSeries[2].value # result.monthlyReturns[2].portfolioReturn
    /\ result.timeSeries[2].value # One

-----------------------------------------------------------------------------
(* Vocabulary of the ratio property *)

MonthlyReturnsOf == [i \in 1..Len(monthlyReturns) |-> monthlyReturns[i].portfolioReturn]

\* all monthly returns are equal (a single month included)
AllMonthlyReturnsEqual ==
    \A i, j \in 1..Len(monthlyReturns) : MonthlyReturnsOf[i] = MonthlyReturnsOf[j]

\* no monthly return is below the monthly risk-free rate
NoReturnBelowRiskFree ==
    \A i \in 1..Len(monthlyReturns) : ~Lt(MonthlyReturnsOf[i], MonthlyRiskFreeRate)

(* C20: calculateMetrics never divides by zero when forming a ratio:
   sharpeRatio is 0 whenever the annualized volatility is 0, that is whenever
   all monthly returns are equal (a single-month sequence included);
   sortinoRatio is 0 whenever no monthly return is below the monthly
   risk-free rate; calmarRatio is 0 whenever maxDrawdown is 0; in every other
   case each ratio is the stated quotient.  (The claim as stated.) *)
C20_Original ==
    MetricsReturned =>
        /\ metrics.sharpeRatio
              = IF AllMonthlyReturnsEqual THEN Zero
                ELSE Quotient("annualizedExcessReturn", "annualizedVolatility")
        /\ metrics.sortinoRatio
              = IF NoReturnBelowRiskFree THEN Zero
                ELSE Quotient("annualizedExcessReturn", "downsideVolatility")
        /\ metrics.calmarRatio
              = IF DrawdownLoop(monthlyReturns)[2] = Zero THEN Zero
                ELSE Quotient("annualizedReturn", "Math.abs(maxDrawdown)")

-----------------------------------------------------------------------------
(* PortfolioDataService.fetchMissingAssets (data service, lines 104-160).
   The function is async: an action is the code that runs from one await to
   the next.  The add-asset endpoint is the environment: its answer to a
   request is any of the outcomes the fetch API has. *)

\* ticker symbols
TickerNames == <<"X", "Y", "Z", "V", "W">>

\* the missingAssets arguments
TickerLists == { [i \in 1..n |-> TickerNames[i]] : n \in 0..MaxTickers }

FetchEvent(kind, i) == [kind |-> kind, ticker |-> missingAssets[i]]

InitFetchMissing ==
    /\ CoreIdle
    /\ HandlerIdle
    /\ CsvIdle
    /\ DataServiceIdle
    /\ AddAssetIdle
    /\ missingAssets \in TickerLists
    /\ fetchPc = "called"
    /\ tickerIdx = 0
    /\ successCount = 0
    /\ failedCount = 0
    /\ fetchResult = Undefined
    /\ fetchEvents = <<>>

\* the for-of loop takes its next ticker and issues the request of lines
\* 121-129, or is exhausted and the function returns (lines 158-159)
NextTicker(success, failed, events) ==
    IF tickerIdx < Len(missingAssets)
    THEN /\ tickerIdx' = tickerIdx + 1
         /\ fetchPc' = "fetch"
         /\ fetchEvents' = Append(events, FetchEvent("request", tickerIdx + 1))
         /\ fetchResult' = fetchResult
    ELSE /\ tickerIdx' = tickerIdx
         /\ fetchPc' = "returned"
         /\ fetchEvents' = events
         /\ fetchResult' = [success |-> success, failed |-> failed]

\* lines 148-151: the wait between requests, then the end of the iteration
RateLimit(success, failed, events) ==
    IF success + failed < Len(missingAssets)
    THEN /\ fetchPc' = "wait"
         /\ fetchEvents' = Append(events, FetchEvent("wait", tickerIdx))
         /\ UNCHANGED <<tickerIdx, fetchResult>>
    ELSE NextTicker(success, failed, events)

\* lines 108-124: the early return on an empty list, or the counters set to
\* 0 and the first request issued
FetchMissingEnter ==
    /\ fetchPc = "called"
    /\ IF Len(missingAssets) = 0
       THEN /\ fetchResult' = [success |-> 0, failed |-> 0]
            /\ fetchPc' = "returned"
            /\ UNCHANGED <<tickerIdx, fetchEvents>>
       ELSE NextTicker(0, 0, fetchEvents)
    /\ successCount' = 0
    /\ failedCount' = 0
    /\ UNCHANGED <<coreVars, handlerVars, dataServiceVars, addAssetVars, csv, missingAssets>>

\* the fetch resolves with a response: lines 131-134 (response.ok) or lines
\* 142-144 (any other status), up to the await of the body
FetchResponds ==
    /\ fetchPc = "fetch"
    /\ \E ok \in BOOLEAN :
          /\ fetchPc' = IF ok THEN "json" ELSE "text"
          /\ failedCount' = IF ok THEN failedCount ELSE failedCount + 1
          /\ fetchEvents' = Append(fetchEvents,
                FetchEvent(IF ok THEN "status ok" ELSE "status not ok", tickerIdx))
    /\ UNCHANGED <<coreVars, handlerVars, dataServiceVars, addAssetVars, csv, missingAssets, tickerIdx, successCount, fetchResult>>

\* the fetch rejects, with a network error or with the abort of the 45 s
\* timer: the catch of lines 152-155, then the next iteration
FetchRejects ==
    /\ fetchPc = "fetch"
    /\ \E reason \in {"network error", "aborted"} :
          NextTicker(successCount, failedCount + 1,
                     Append(fetchEvents, FetchEvent(reason, tickerIdx)))
    /\ failedCount' = failedCount + 1
    /\ UNCHANGED <<coreVars, handlerVars, dataServiceVars, addAssetVars, csv, missingAssets, successCount>>

\* response.json() resolves: lines 135-141 and the rate limiting
JsonResolves ==
    /\ fetchPc = "json"
    /\ \E success \in BOOLEAN :
          LET s == IF success THEN successCount + 1 ELSE successCount
              f == IF success THEN failedCount ELSE failedCount + 1
          IN  /\ successCount' = s
              /\ failedCount' = f
              /\ RateLimit(s, f, Append(fetchEvents,
                    FetchEvent(IF success THEN "success" ELSE "failure", tickerIdx)))
    /\ UNCHANGED <<coreVars, handlerVars, dataServiceVars, addAssetVars, csv, missingAssets>>

\* response.json() rejects (the body is not readable as JSON): the catch
JsonRejects ==
    /\ fetchPc = "json"
    /\ failedCount' = failedCount + 1
    /\ NextTicker(successCount, failedCount + 1,
                  Append(fetchEvents, FetchEvent("unreadable body", tickerIdx)))
    /\ UNCHANGED <<coreVars, handlerVars, dataServiceVars, addAssetVars, csv, missingAssets, successCount>>

\* response.text() resolves: line 145 and the rate limiting
TextResolves ==
    /\ fetchPc = "text"
    /\ RateLimit(successCount, failedCount,
                 Append(fetchEvents, FetchEvent("error text", tickerIdx)))
    /\ UNCHANGED <<coreVars, handlerVars, dataServiceVars, addAssetVars, csv, missingAssets, successCount, failedCount>>

\* response.text() rejects: the catch
TextRejects ==
    /\ fetchPc = "text"
    /\ failedCount' = failedCount + 1
    /\ NextTicker(successCount, failedCount + 1,
                  Append(fetchEvents, FetchEvent("body read failed", tickerIdx)))
    /\ UNCHANGED <<coreVars, handlerVars, dataServiceVars, addAssetVars, csv, missingAssets, successCount>>

\* the timer of line 150 fires: the iteration ends
WaitElapses ==
    /\ fetchPc = "wait"
    /\ NextTicker(successCount, failedCount, fetchEvents)
    /\ UNCHANGED <<coreVars, handlerVars, dataServiceVars, addAssetVars, csv, missingAssets, successCount, failedCount>>

NextFetchMissing ==
    \/ FetchMissingEnter \/ FetchResponds \/ FetchRejects \/ JsonResolves
    \/ JsonRejects \/ TextResolves \/ TextRejects \/ WaitElapses

SpecFetchMissing == InitFetchMissing /\ [][NextFetchMissing]_vars

-----------------------------------------------------------------------------
(* The singleton factory of the data service (lines 207-229).  Both
   factories are synchronous: a call is one action.  The environment
   variables belong to the process and can change between two calls. *)

\* the states of the two environment variables: both set; both set, the URL
\* changed; the URL removed; the key empty; neither set
Environments ==
    { [SUPABASE_URL |-> <<"https://a.supabase.co">>, SUPABASE_KEY |-> <<"key">>],
      [SUPABASE_URL |-> <<"https://b.supabase.co">>, SUPABASE_KEY |-> <<"key">>],
      [SUPABASE_URL |-> Undefined,                   SUPABASE_KEY |-> <<"key">>],
      [SUPABASE_URL |-> <<"https://a.supabase.co">>, SUPABASE_KEY |-> <<"">>],
      [SUPABASE_URL |-> Undefined,                   SUPABASE_KEY |-> Undefined] }

\* !value for a string or undefined
Falsy(value) == value = Undefined \/ value = <<"">>

\* new PortfolioDataService(config): the object with the next identity
NewDataService(id, url, key) == [id |-> id, supabaseUrl |-> url, supabaseKey |-> key]

\* getDataService constructing on every call
getDataService_NoCache(instance, environment, id) ==
    IF Falsy(environment.SUPABASE_URL) \/ Falsy(environment.SUPABASE_KEY)
    THEN [instance |-> instance, returned |-> Undefined, constructed |-> 0,
          threw |-> <<"Missing environment variables: SUPABASE_URL or SUPABASE_KEY">>]
    ELSE LET made == NewDataService(id, environment.SUPABASE_URL,
                                    environment.SUPABASE_KEY)
         IN  [instance |-> made, returned |-> made, constructed |-> 1,
              threw |-> Undefined]

\* getDataService(): the module variable after the call, the value returned,
\* the number of objects constructed and the message thrown
getDataService(instance, environment, id) ==
    IF instance = Undefined
    THEN IF Falsy(environment.SUPABASE_URL) \/ Falsy(environment.SUPABASE_KEY)
         THEN [instance |-> instance, returned |-> Undefined, constructed |-> 0,
               threw |-> <<"Missing environment variables: SUPABASE_URL or SUPABASE_KEY">>]
         ELSE LET made == NewDataService(id, environment.SUPABASE_URL,
                                         environment.SUPABASE_KEY)
              IN  [instance |-> made, returned |-> made, constructed |-> 1,
                   threw |-> Undefined]
    ELSE [instance |-> instance, returned |-> instance, constructed |-> 0,
          threw |-> Undefined]

\* the DataServiceConfig arguments of createDataService
ServiceConfigs ==
    { [supabaseUrl |-> <<"https://a.supabase.co">>, supabaseKey |-> <<"key">>],
      [supabaseUrl |-> <<"https://c.supabase.co">>, supabaseKey |-> <<"other key">>] }

InitDataService ==
    /\ CoreIdle
    /\ HandlerIdle
    /\ CsvIdle
    /\ FetchIdle
    /\ AddAssetIdle
    /\ env \in Environments
    /\ dataServiceInstance = Undefined
    /\ objects = 0
    /\ serviceCalls = <<>>

\* a call of getDataService(), from any request
GetDataService ==
    /\ Len(serviceCalls) < MaxServiceCalls
    /\ LET call == getDataService(dataServiceInstance, env, objects + 1)
       IN  /\ dataServiceInstance' = call.instance
           /\ objects' = objects + call.constructed
           /\ serviceCalls' = Append(serviceCalls,
                 [fn |-> "getDataService", env |-> env, argument |-> Undefined,
                  before |-> dataServiceInstance, after |-> call.instance,
                  constructed |-> call.constructed,
                  returned |-> call.returned, threw |-> call.threw])
    /\ UNCHANGED <<coreVars, handlerVars, addAssetVars, csv, fetchVars, env>>

\* a call of createDataService(config)
CreateDataService ==
    /\ Len(serviceCalls) < MaxServiceCalls
    /\ \E cfg \in ServiceConfigs :
          LET made == NewDataService(objects + 1, cfg.supabaseUrl, cfg.supabaseKey)
          IN  serviceCalls' = Append(serviceCalls,
                 [fn |-> "createDataService", env |-> env, argument |-> cfg,
                  before |-> dataServiceInstance, after |-> dataServiceInstance,
                  constructed |-> 1,
                  returned |-> made, threw |-> Undefined])
    /\ objects' = objects + 1
    /\ UNCHANGED <<coreVars, handlerVars, addAssetVars, csv, fetchVars, env, dataServiceInstance>>

\* the environment variables of the process are changed or removed
ChangeEnvironment ==
    /\ env' \in Environments \ {env}
    /\ UNCHANGED <<coreVars, handlerVars, addAssetVars, csv, fetchVars, dataServiceInstance, objects, serviceCalls>>

NextDataService == GetDataService \/ CreateDataService \/ ChangeEnvironment

SpecDataService == InitDataService /\ [][NextDataService]_vars

-----------------------------------------------------------------------------
(* The add-asset route (app/api/portfolio/add-asset/route.ts): the POST
   handler, checkAssetExists and addNewAsset.  The handler is async: an
   action is the code that runs from one await to the next, or a listener of
   the script process.  The database and the script are the environment. *)

\* the request bodies: not JSON; no ticker field; an empty ticker; tickers in
\* lower and upper case; a ticker that is a number
AddBodies ==
    { [kind |-> "invalid json", tickerType |-> "undefined", ticker |-> ""],
      [kind |-> "object", tickerType |-> "undefined", ticker |-> ""],
      [kind |-> "object", tickerType |-> "string", ticker |-> ""],
      [kind |-> "object", tickerType |-> "string", ticker |-> "spy"],
      [kind |-> "object", tickerType |-> "string", ticker |-> "SPY"],
      [kind |-> "object", tickerType |-> "string", ticker |-> "qqq"],
      [kind |-> "object", tickerType |-> "number", ticker |-> "5"] }

\* !ticker
TickerMissing(body) == body.tickerType = "undefined" \/ body.ticker = ""

\* String.prototype.toUpperCase on the tickers of the model
ToUpperCase(ticker) ==
    CASE ticker = "spy" -> "SPY"
      [] ticker = "qqq" -> "QQQ"
      [] OTHER          -> ticker

\* const upperTicker = ticker.toUpperCase()
UpperTicker(body) == ToUpperCase(body.ticker)

\* the outcomes of the query of checkAssetExists: rows returned, an error
\* object returned, no error and no data, the query throwing
CheckOutcomes == {"rows", "error", "no data", "threw"}

\* the value checkAssetExists returns, lines 48-57
ExistsResult(ticker, outcome, table) ==
    IF outcome = "rows" THEN ticker \in table ELSE FALSE

\* the texts the script writes: its JSON answers, whole or in two parts, and
\* a line that is not JSON
AddedJson       == <<"{", "success: true, action: added", "}">>
FetchFailedJson == <<"{", "success: false, action: fetch_failed", "}">>

StdoutChunks ==
    { AddedJson, FetchFailedJson, <<"{", "success: true, action: added">>, <<"}">>,
      <<"warning">> }

StderrChunks == { <<"Traceback">> }

\* JSON.parse(output)
JsonParse(text) ==
    IF text = AddedJson
    THEN [ok |-> TRUE,
          value |-> [success |-> TRUE, action |-> "added", message |-> <<"added">>]]
    ELSE IF text = FetchFailedJson
    THEN [ok |-> TRUE,
          value |-> [success |-> FALSE, action |-> "fetch_failed",
                     message |-> <<"fetch failed">>]]
    ELSE [ok |-> FALSE, value |-> Undefined]

\* the exit codes passed to the close listener; a process ended by a signal
\* closes with code null
ExitCodes == {0, 1, NullCode}

\* the AssetResponse of lines 84-95
ErrorResponse(message) == [success |-> FALSE, action |-> "error", message |-> message]

\* resolve(value) on a promise: only the first call settles it
Resolve(p, value) ==
    IF p.state = "pending" THEN [state |-> "resolved", value |-> value] ELSE p

\* NextResponse.json(body, {status})
JsonResponse(status, success, action, message) ==
    [status |-> status, success |-> success, action |-> action, message |-> message]

InitAddAsset ==
    /\ CoreIdle
    /\ HandlerIdle
    /\ CsvIdle
    /\ FetchIdle
    /\ env \in { [SUPABASE_URL |-> <<"https://a.supabase.co">>, SUPABASE_KEY |-> <<"key">>],
                 [SUPABASE_URL |-> Undefined, SUPABASE_KEY |-> Undefined] }
    /\ dataServiceInstance = Undefined
    /\ objects = 0
    /\ serviceCalls = <<>>
    /\ addBody \in AddBodies
    /\ addPc = "received"
    /\ dbTickers \in { {}, {"SPY"} }
    /\ existsCheck = Undefined
    /\ spawns = <<>>
    /\ childState = "none"
    /\ exitCode = NullCode
    /\ output = <<>>
    /\ errorOutput = <<>>
    /\ promise = Undefined
    /\ resolveCalls = 0
    /\ addResponse = Undefined

\* lines 111-129, from the parsed body to the query of checkAssetExists
\* (lines 36-46) or to a response
AddAssetReceive ==
    /\ addPc = "received"
    /\ IF addBody.kind = "invalid json"
       THEN /\ addResponse' = JsonResponse(500, FALSE, "none", <<"Unexpected token">>)
            /\ addPc' = "responded"
            /\ UNCHANGED existsCheck
       ELSE IF TickerMissing(addBody)
       THEN /\ addResponse' = JsonResponse(400, FALSE, "none", <<"Ticker is required">>)
            /\ addPc' = "responded"
            /\ UNCHANGED existsCheck
       ELSE IF addBody.tickerType # "string"
       THEN /\ addResponse' = JsonResponse(500, FALSE, "none",
                                           <<"ticker.toUpperCase is not a function">>)
            /\ addPc' = "responded"
            /\ UNCHANGED existsCheck
       ELSE IF Falsy(env.SUPABASE_URL) \/ Falsy(env.SUPABASE_KEY)
       THEN /\ addResponse' = JsonResponse(500, FALSE, "none", <<"supabaseUrl is required.">>)
            /\ addPc' = "responded"
            /\ UNCHANGED existsCheck
       ELSE /\ existsCheck' = [ticker |-> UpperTicker(addBody), outcome |-> "pending",
                               returned |-> FALSE]
            /\ addPc' = "checking"
            /\ UNCHANGED addResponse
    /\ UNCHANGED <<coreVars, handlerVars, csv, fetchVars, dataServiceVars, addBody, dbTickers, spawns,
                   childState, exitCode, output, errorOutput, promise, resolveCalls>>

\* the script spawned on every ticker, the result of checkAssetExists ignored
ExistenceCheckSettles_AlwaysSpawns ==
    /\ addPc = "checking"
    /\ \E outcome \in CheckOutcomes :
          existsCheck' = [ticker |-> existsCheck.ticker, outcome |-> outcome,
                          returned |-> ExistsResult(existsCheck.ticker, outcome, dbTickers)]
    /\ spawns' = Append(spawns, existsCheck.ticker)
    /\ childState' = "running"
    /\ promise' = [state |-> "pending", value |-> Undefined]
    /\ addPc' = "awaiting script"
    /\ UNCHANGED <<coreVars, handlerVars, csv, fetchVars, dataServiceVars, addBody, dbTickers,
                   exitCode, output, errorOutput, resolveCalls, addResponse>>

\* the query of checkAssetExists settles: lines 48-57, then lines 131-141:
\* the 'exists' response, or addNewAsset up to its return (lines 62-78: the
\* script spawned, the listeners registered)
ExistenceCheckSettles ==
    /\ addPc = "checking"
    /\ \E outcome \in CheckOutcomes :
          LET exists == ExistsResult(existsCheck.ticker, outcome, dbTickers)
          IN  /\ existsCheck' = [ticker |-> existsCheck.ticker, outcome |-> outcome,
                                 returned |-> exists]
              /\ IF exists
                 THEN /\ addResponse' = JsonResponse(200, TRUE, "exists",
                             <<existsCheck.ticker, " already exists in database">>)
                      /\ addPc' = "responded"
                      /\ UNCHANGED <<spawns, childState, promise>>
                 ELSE /\ spawns' = Append(spawns, existsCheck.ticker)
                      /\ childState' = "running"
                      /\ promise' = [state |-> "pending", value |-> Undefined]
                      /\ addPc' = "awaiting script"
                      /\ UNCHANGED addResponse
    /\ UNCHANGED <<coreVars, handlerVars, csv, fetchVars, dataServiceVars, addBody, dbTickers,
                   exitCode, output, errorOutput, resolveCalls>>

\* python.stdout.on('data'): lines 70-72
ChildWritesStdout ==
    /\ childState = "running"
    /\ \E chunk \in StdoutChunks :
          /\ Len(output) + Len(chunk) <= MaxOutput
          /\ output' = output \o chunk
    /\ UNCHANGED <<coreVars, handlerVars, csv, fetchVars, dataServiceVars, addBody, addPc, dbTickers,
                   existsCheck, spawns, childState, exitCode, errorOutput, promise,
                   resolveCalls, addResponse>>

\* python.stderr.on('data'): lines 74-76
ChildWritesStderr ==
    /\ childState = "running"
    /\ \E chunk \in StderrChunks :
          /\ Len(errorOutput) + Len(chunk) <= MaxOutput
          /\ errorOutput' = errorOutput \o chunk
    /\ UNCHANGED <<coreVars, handlerVars, csv, fetchVars, dataServiceVars, addBody, addPc, dbTickers,
                   existsCheck, spawns, childState, exitCode, output, promise,
                   resolveCalls, addResponse>>

\* the close listener leaving the promise pending on a failed script
ChildCloses_SilentOnFailure ==
    /\ childState = "running"
    /\ childState' = "closed"
    /\ \E code \in ExitCodes :
          /\ exitCode' = code
          /\ IF code = 0 /\ JsonParse(output).ok
             THEN /\ promise' = Resolve(promise, JsonParse(output).value)
                  /\ resolveCalls' = resolveCalls + 1
             ELSE UNCHANGED <<promise, resolveCalls>>
    /\ UNCHANGED <<coreVars, handlerVars, csv, fetchVars, dataServiceVars, addBody, addPc, dbTickers,
                   existsCheck, spawns, output, errorOutput, addResponse>>

\* python.on('close'): lines 78-97
ChildCloses ==
    /\ childState = "running"
    /\ childState' = "closed"
    /\ \E code \in ExitCodes :
          /\ exitCode' = code
          /\ promise' =
                IF code = 0
                THEN IF JsonParse(output).ok
                     THEN Resolve(promise, JsonParse(output).value)
                     ELSE Resolve(promise,
                             ErrorResponse(<<"Failed to parse Python output: ", output>>))
                ELSE Resolve(promise,
                             ErrorResponse(<<"Python script failed: ", errorOutput>>))
    /\ resolveCalls' = resolveCalls + 1
    /\ UNCHANGED <<coreVars, handlerVars, csv, fetchVars, dataServiceVars, addBody, addPc, dbTickers,
                   existsCheck, spawns, output, errorOutput, addResponse>>

\* the await of line 141 resumes: lines 143-146, or the catch of lines 148-159
\* had the promise rejected
AddAssetResume ==
    /\ addPc = "awaiting script"
    /\ promise.state # "pending"
    /\ addResponse' =
          IF promise.state = "resolved"
          THEN JsonResponse(200, promise.value.success, promise.value.action,
                            promise.value.message)
          ELSE JsonResponse(500, FALSE, "none", promise.value)
    /\ addPc' = "responded"
    /\ UNCHANGED <<coreVars, handlerVars, csv, fetchVars, dataServiceVars, addBody, dbTickers,
                   existsCheck, spawns, childState, exitCode, output, errorOutput,
                   promise, resolveCalls>>

NextAddAsset ==
    \/ AddAssetReceive \/ ExistenceCheckSettles \/ ChildWritesStdout
    \/ ChildWritesStderr \/ ChildCloses \/ AddAssetResume

SpecAddAsset == InitAddAsset /\ [][NextAddAsset]_vars

-----------------------------------------------------------------------------
(* The refactored calculate route (POST, lines 388-505).  The handler is
   async: an action is the code that runs from one await to the next.  The
   database and the file system are the environment; fetchMissingAssets and
   calculatePortfolio run as modelled above, called by the handler. *)

\* the request bodies: a body that is no JSON, a JSON body without an assets
\* list, and CalculateRequest objects (startDate, endDate and riskFreeRate
\* are handed on unread and are left out)
RequestBody(kind, a, w, r, g) ==
    [kind |-> kind, assets |-> a, weights |-> w, rebalanceMonths |-> r,
     generateCSV |-> g]

HandlerBodies ==
    { RequestBody("malformed", <<>>, <<>>, Undefined, FALSE),
      RequestBody("no assets", <<>>, <<>>, Undefined, FALSE),
      RequestBody("object", <<>>, <<>>, Undefined, FALSE),
      RequestBody("object", <<"X">>, << One >>, Undefined, TRUE),
      RequestBody("object", <<"X", "Y">>, << Num(1, 2), Num(1, 2) >>, Undefined, FALSE),
      RequestBody("object", <<"X", "Y">>, << Num(1, 2), Num(1, 2) >>, Num(2, 1), TRUE),
      RequestBody("object", <<"X", "Y">>, << Num(1, 2), Num(2, 5) >>, Undefined, TRUE) }

\* the asset_returns table at the time of the feed query: empty, one month
\* of X only, or two months of X and Y
HandlerTables ==
    { <<>>,
      << << [asset |-> "X", return |-> One] >> >>,
      << << [asset |-> "X", return |-> One], [asset |-> "Y", return |-> Num(-1, 2)] >>,
         << [asset |-> "Y", return |-> Num(1, 8)], [asset |-> "X", return |-> Zero] >> >> }

\* the module variable of the data service when the request arrives: not yet
\* set, or set by an earlier request
EarlierInstance == NewDataService(1, <<"https://a.supabase.co">>, <<"key">>)

\* Array.includes
Includes(list, x) == \E i \in 1..Len(list) : list[i] = x

\* the rows the query of fetchAssetReturns selects: .in('asset_ticker',
\* assets), ordered by return_date
QueryRows(table, assets) ==
    SelectSeq(RowsAscending(table, Len(table)), LAMBDA row : Includes(assets, row.asset))

\* checkMissingAssets: assets.filter(asset => !existingAssets.has(asset)), or
\* all the assets when the query fails
MissingOf(assets, existing, failed) ==
    IF failed THEN assets ELSE SelectSeq(assets, LAMBDA a : a \notin existing)

\* body.rebalanceMonths ?? -1
OrNever(rebalanceMonths) ==
    IF rebalanceMonths = Undefined THEN Num(-1, 1) ELSE rebalanceMonths

\* the PortfolioConfig of lines 429-435
ConfigOf(b) ==
    [assets |-> b.assets, weights |-> b.weights,
     rebalanceMonths |-> OrNever(b.rebalanceMonths)]

\* the catch clause of lines 484-504: status 500 with the message of the
\* error, or with the timeout message after more than 9000 ms
ErrorResponses(message) ==
    { [status |-> 500, success |-> FALSE, error |-> message, logFile |-> Undefined],
      [status |-> 500, success |-> FALSE, error |-> <<"Request timeout">>,
       logFile |-> Undefined] }

\* lines 418-426
NotFoundResponse ==
    [status |-> 404, success |-> FALSE,
     error |-> <<"No data found for specified assets and date range">>,
     logFile |-> Undefined]

\* lines 464-482; logFile: csvFilename || undefined
SuccessResponse(filename) ==
    [status |-> 200, success |-> TRUE, error |-> Undefined,
     logFile |-> IF filename = "" THEN Undefined ELSE <<filename>>]

InitHandler ==
    /\ CoreIdle
    /\ CsvIdle
    /\ FetchIdle
    /\ AddAssetIdle
    /\ env \in { [SUPABASE_URL |-> <<"https://a.supabase.co">>, SUPABASE_KEY |-> <<"key">>],
                 [SUPABASE_URL |-> Undefined, SUPABASE_KEY |-> <<"key">>] }
    /\ \/ dataServiceInstance = Undefined /\ objects = 0
       \/ dataServiceInstance = EarlierInstance /\ objects = 1
    /\ serviceCalls = <<>>
    /\ requestBody \in HandlerBodies
    /\ reqPc = "received"
    /\ steps = <<>>
    /\ feedRows = Undefined
    /\ csvFilename = ""
    /\ response = Undefined

\* lines 393-400: request.json() settles, the request is logged, the data
\* service is obtained and checkMissingAssets is called
HandlerReceive ==
    /\ reqPc = "received"
    /\ IF requestBody.kind = "malformed"
       THEN /\ response' \in ErrorResponses(<<"Unexpected token in JSON">>)
            /\ reqPc' = "responded"
            /\ UNCHANGED <<dataServiceVars, steps>>
       ELSE IF requestBody.kind = "no assets"
       THEN /\ response' \in ErrorResponses(
                   <<"Cannot read properties of undefined (reading 'length')">>)
            /\ reqPc' = "responded"
            /\ UNCHANGED <<dataServiceVars, steps>>
       ELSE LET call == getDataService(dataServiceInstance, env, objects + 1)
            IN  /\ dataServiceInstance' = call.instance
                /\ objects' = objects + call.constructed
                /\ serviceCalls' = Append(serviceCalls,
                      [fn |-> "getDataService", env |-> env, argument |-> Undefined,
                       before |-> dataServiceInstance, after |-> call.instance,
                       constructed |-> call.constructed,
                       returned |-> call.returned, threw |-> call.threw])
                /\ UNCHANGED env
                /\ IF call.threw # Undefined
                   THEN /\ response' \in ErrorResponses(call.threw)
                        /\ reqPc' = "responded"
                        /\ UNCHANGED steps
                   ELSE /\ steps' = Append(steps, "check")
                        /\ reqPc' = "checking"
                        /\ UNCHANGED response
    /\ UNCHANGED <<coreVars, csv, fetchVars, addAssetVars, requestBody, feedRows,
                   csvFilename>>

\* lines 400-411: checkMissingAssets returns the assets without rows (all of
\* them when its query fails); with a non-empty list fetchMissingAssets is
\* called, otherwise the feed query
CheckMissingSettles ==
    /\ reqPc = "checking"
    /\ \E failed \in BOOLEAN, existing \in SUBSET {"X", "Y"} :
          LET missing == MissingOf(requestBody.assets, existing, failed)
          IN  IF Len(missing) > 0
              THEN /\ missingAssets' = missing
                   /\ fetchPc' = "called"
                   /\ steps' = Append(steps, "resolve")
                   /\ reqPc' = "resolving"
              ELSE /\ steps' = Append(steps, "feed")
                   /\ reqPc' = "querying"
                   /\ UNCHANGED <<missingAssets, fetchPc>>
    /\ UNCHANGED <<coreVars, csv, dataServiceVars, addAssetVars, tickerIdx,
                   successCount, failedCount, fetchResult, fetchEvents, requestBody,
                   feedRows, csvFilename, response>>

\* a failed resolution sends the handler back to fetchMissingAssets
MissingResolved_Retries ==
    /\ reqPc = "resolving"
    /\ fetchPc = "returned"
    /\ IF fetchResult.failed > 0 /\ Len(steps) < 4
       THEN /\ steps' = Append(steps, "resolve")
            /\ fetchPc' = "called"
            /\ tickerIdx' = 0
            /\ UNCHANGED reqPc
       ELSE /\ steps' = Append(steps, "feed")
            /\ reqPc' = "querying"
            /\ UNCHANGED <<fetchPc, tickerIdx>>
    /\ UNCHANGED <<coreVars, csv, dataServiceVars, addAssetVars, missingAssets,
                   successCount, failedCount, fetchResult, fetchEvents, requestBody,
                   feedRows, csvFilename, response>>

\* lines 407-411: fetchMissingAssets has returned; its counts are not read
\* and the feed query is issued
MissingResolved ==
    /\ reqPc = "resolving"
    /\ fetchPc = "returned"
    /\ steps' = Append(steps, "feed")
    /\ reqPc' = "querying"
    /\ UNCHANGED <<coreVars, csv, fetchVars, dataServiceVars, addAssetVars, requestBody,
                   feedRows, csvFilename, response>>

\* lines 411-443: the feed query settles: a database error is thrown, no
\* row is answered with status 404, and on rows calculatePortfolio is called
FeedQuerySettles ==
    /\ reqPc = "querying"
    /\ \/ /\ response' \in ErrorResponses(<<"Database error: ", "message">>)
          /\ reqPc' = "responded"
          /\ UNCHANGED <<coreVars, steps, feedRows>>
       \/ \E table \in HandlerTables :
             LET rows == QueryRows(table, requestBody.assets)
             IN  /\ feedRows' = rows
                 /\ IF Len(rows) = 0
                    THEN /\ response' = NotFoundResponse
                         /\ reqPc' = "responded"
                         /\ UNCHANGED <<coreVars, steps>>
                    ELSE /\ config' = ConfigOf(requestBody)
                         /\ returns' = rows
                         /\ pc' = "validate"
                         /\ steps' = Append(steps, "calculate")
                         /\ reqPc' = "calculating"
                         /\ UNCHANGED <<response, returnsByDate, completeDates,
                                        dateIdx, cumulativeValue, currentWeights,
                                        monthsSinceRebalance, monthlyReturns,
                                        timeSeries, metrics, result, error,
                                        completedCalls>>
    /\ UNCHANGED <<csv, fetchVars, dataServiceVars, addAssetVars, requestBody, csvFilename>>

\* lines 439-482: calculatePortfolio has ended: its error goes to the catch
\* clause; its results are rendered by generateCSV and handed to saveCSVLog
\* if the request asks for it, and are answered otherwise
CalculationEnds ==
    /\ reqPc = "calculating"
    /\ pc \in {"done", "threw"}
    /\ IF pc = "threw"
       THEN /\ response' \in ErrorResponses(error)
            /\ reqPc' = "responded"
            /\ UNCHANGED <<csv, steps>>
       ELSE IF requestBody.generateCSV
       THEN /\ csv' = generateCSV(result)
            /\ steps' = Append(steps, "csv")
            /\ reqPc' = "saving"
            /\ UNCHANGED response
       ELSE /\ response' = SuccessResponse(csvFilename)
            /\ reqPc' = "responded"
            /\ UNCHANGED <<csv, steps>>
    /\ UNCHANGED <<coreVars, fetchVars, dataServiceVars, addAssetVars, requestBody,
                   feedRows, csvFilename>>

\* lines 451-482: writeFile settles: the file name, or the text of the
\* inner catch clause, and the response
SaveCsvSettles ==
    /\ reqPc = "saving"
    /\ \E written \in BOOLEAN :
          LET filename == IF written THEN "Returns_Log_timestamp.csv"
                          ELSE "ERROR: CSV generation failed"
          IN  /\ csvFilename' = filename
              /\ response' = SuccessResponse(filename)
    /\ reqPc' = "responded"
    /\ UNCHANGED <<coreVars, csv, fetchVars, dataServiceVars, addAssetVars, requestBody,
                   steps, feedRows>>

NextHandler ==
    \/ HandlerReceive \/ CheckMissingSettles \/ NextFetchMissing \/ MissingResolved
    \/ FeedQuerySettles \/ Next \/ CalculationEnds \/ SaveCsvSettles

SpecHandler == InitHandler /\ [][NextHandler]_vars

-----------------------------------------------------------------------------
(* C21 *)

\* the positions of a separator in a string
SeparatorsIn(s, separator) == { i \in 1..Len(s) : s[i] = separator }

\* String.prototype.split: the pieces of s between the separators
Split(s, separator) ==
    LET P      == SeparatorsIn(s, separator)
        n      == Cardinality(P)
        pos(k) == CHOOSE i \in P : Cardinality({ j \in P : j < i }) = k - 1
        from(k) == IF k = 1 THEN 1 ELSE pos(k - 1) + 1
        to(k)   == IF k = n + 1 THEN Len(s) ELSE pos(k) - 1
    IN  [k \in 1..(n + 1) |-> SubSeq(s, from(k), to(k))]

\* the header the claim spells out, field by field
ExpectedHeader(assets) ==
    << Text("Date") >>
        \o [i \in 1..Len(assets) |-> Text(assets[i])]
        \o << Text("Portfolio_Return") >>
        \o [i \in 1..Len(assets) |-> Suffixed(assets[i], "_Weight_Before")]
        \o [i \in 1..Len(assets) |-> Suffixed(assets[i], "_Weight_After")]
        \o << Text("Rebalanced") >>

\* C21: generateCSV(results) has exactly 1 + len(monthlyReturns) lines; the
\* first is the header Date, the assets, Portfolio_Return, the assets'
\* _Weight_Before and _Weight_After columns, Rebalanced; line i + 1 is the row
\* of record i (its date first, its portfolio return after the asset
\* returns); every row has as many fields as the header, 3n + 3 for n assets;
\* the last field is YES exactly for the records with wasRebalanced = true
\* and NO otherwise.
C21_CsvLayout ==
    csv # Undefined =>
        LET lines  == Split(csv, Newline)
            recs   == result.monthlyReturns
            assets == result.config.assets
            n      == Len(assets)
            header == Split(lines[1], Comma)
        IN  /\ Len(lines) = 1 + Len(recs)
            /\ header = ExpectedHeader(assets)
            /\ Len(header) = 3 * n + 3
            /\ \A i \in 1..Len(recs) :
                  LET fields == Split(lines[i + 1], Comma)
                  IN  /\ Len(fields) = Len(header)
                      /\ fields[1] = DateText(recs[i].date)
                      /\ fields[n + 2] = FixedText(recs[i].portfolioReturn)
                      /\ (fields[Len(fields)] = Text("YES")) <=> recs[i].wasRebalanced
                      /\ (fields[Len(fields)] = Text("NO")) <=> ~recs[i].wasRebalanced

\* a CSV of three records of two assets, the second one rebalanced and the
\* others not
C21_Witness ==
    /\ csv # Undefined
    /\ Len(result.config.assets) = 2
    /\ Len(result.monthlyReturns) = 3
    /\ ~result.monthlyReturns[1].wasRebalanced
    /\ result.monthlyReturns[2].wasRebalanced
    /\ ~result.monthlyReturns[3].wasRebalanced
    /\ Len(Split(csv, Newline)) = 4

-----------------------------------------------------------------------------
(* C23 *)

\* the fields of a PortfolioResults
ResultFields == {"config", "monthlyReturns", "timeSeries", "metrics"}

\* C23: calculatePortfolio is all-or-nothing.  A call that threw (with the
\* config error or the no-overlapping-data error) has no result; a call that
\* returned has no error and a result holding the config, one record for
\* every complete date (at least one), a time series of the same length and
\* the metrics; before the call ends there is neither.
C23_AllOrNothing ==
    InCalculatePortfolio =>
        /\ (result # Undefined) <=> (pc = "done")
        /\ (error # Undefined) <=> (pc = "threw")
        /\ pc = "threw" =>
              error \in {validatePortfolioConfig(config).error, NoOverlapMessage}
        /\ pc = "done" =>
              /\ DOMAIN result = ResultFields
              /\ result.config = config
              /\ Len(result.monthlyReturns) > 0
              /\ Len(result.monthlyReturns)
                    = Cardinality({ d \in FeedDates : DateIsComplete(d) })
              /\ Len(result.timeSeries) = Len(result.monthlyReturns)
              /\ result.metrics # Undefined
              /\ result.metrics.numMonths = Len(result.monthlyReturns)

\* a call that fails after the rows of two dates were grouped: the
\* no-overlapping-data error and no result
C23_Witness ==
    /\ InCalculatePortfolio
    /\ pc = "threw"
    /\ error = NoOverlapMessage
    /\ Len(returnsByDate) = 2
    /\ result = Undefined

-----------------------------------------------------------------------------
(* C24 *)

\* the config weights are all non-negative and sum to exactly 1
LongOnlyConfig ==
    /\ \A i \in 1..Len(config.weights) : Ge(config.weights[i], Zero)
    /\ SumSeq(config.weights) = One

\* every asset return of the input is greater than -1
NoTotalLoss == \A i \in 1..Len(returns) : Gt(returns[i].return, Num(-1, 1))

\* a weight record whose entries all lie in [0, 1]
WeightsInUnitInterval(f) == \A a \in DOMAIN f : Ge(f[a], Zero) /\ Le(f[a], One)

\* C24: for a config whose weights are non-negative and sum to exactly 1 and
\* an input whose asset returns are all greater than -1, every step of
\* calculatePortfolioReturns has a strictly positive growth factor
\* 1 + monthlyReturn (so the normalisation never divides by zero and every
\* value is finite), every weightsBefore and weightsAfter entry lies in
\* [0, 1], every portfolioReturn is greater than -1, and every emitted
\* cumulativeValue is non-negative.
C24_PositiveGrowth ==
    (InCalculatePortfolio /\ LongOnlyConfig /\ NoTotalLoss) =>
        /\ cumulativeValue # Undefined => Gt(cumulativeValue, Zero)
        /\ \A k \in 1..Len(monthlyReturns) :
              LET rec == monthlyReturns[k]
              IN  /\ Gt(Add(One, rec.portfolioReturn), Zero)
                  /\ Gt(rec.portfolioReturn, Num(-1, 1))
                  /\ WeightsInUnitInterval(rec.weightsBeforeRebalance)
                  /\ WeightsInUnitInterval(rec.weightsAfterRebalance)
                  /\ \A a \in DOMAIN rec.weightsAfterRebalance :
                        IsFinite(rec.weightsAfterRebalance[a])
                  /\ Ge(rec.cumulativeValue, Zero)

\* weights 0.25 / 0.75 never rebalanced over three months in which X doubles
\* and Y halves: X has grown to more than nine tenths of the portfolio
C24_Witness ==
    /\ InCalculatePortfolio /\ LongOnlyConfig /\ NoTotalLoss
    /\ Len(config.weights) = 2
    /\ Len(monthlyReturns) = 3
    /\ \A k \in 1..3 :
          /\ ~monthlyReturns[k].wasRebalanced
          /\ monthlyReturns[k].assetReturns["Y"] = Num(-1, 2)
    /\ Gt(monthlyReturns[3].weightsAfterRebalance["X"], Num(9, 10))
    /\ Lt(monthlyReturns[3].weightsAfterRebalance["X"], One)
    /\ Lt(monthlyReturns[1].cumulativeValue, One)

-----------------------------------------------------------------------------
(* C30 *)

\* the feed is sorted ascending by date
SortedByDate(rows) ==
    \A i, j \in 1..Len(rows) : i < j => rows[i].date <= rows[j].date

\* the locals of the handler, run on the rows and the config of the call,
\* when it has pushed its k-th month
InlineAfterMonths(k) ==
    LET map == InlineGroup(returns)
        j   == CHOOSE i \in 0..Len(map) :
                  /\ Len(InlineAfter(map, config, i).monthlyReturns) = k
                  /\ \A h \in 0..(i - 1) :
                        Len(InlineAfter(map, config, h).monthlyReturns) < k \/ k = 0
    IN  InlineAfter(map, config, j)

\* the locals of the handler at the end of its loop
InlineFinal == InlineAfter(InlineGroup(returns), config, Len(InlineGroup(returns)))

\* calculatePortfolioReturns is inside or past its month loop
PastLoopEntry ==
    /\ pc \in {"loop", "check", "metrics", "assemble", "done"}
    /\ completeDates # <<>>

\* C30: on a feed sorted ascending by date with at most one row per
\* (asset, date), for the same assets, weights and rebalanceMonths, the inline
\* simulation of the handlers and calculatePortfolioReturns agree: after each
\* month the handler's (date, monthly return) sequence, its current weights,
\* its months-since-rebalance counter and its cumulative value are those of
\* the calculator; the handler pushes as many months as the calculator emits
\* records; and its monthlySeries is the calculator's timeSeries preceded by
\* one baseline point of value 1.0.
C30_InlineEquivalent ==
    (InCalculatePortfolio /\ SortedByDate(returns) /\ NoDuplicatePairs(returns)) =>
        /\ PastLoopEntry =>
              LET k == Len(monthlyReturns)
                  h == InlineAfterMonths(k)
              IN  /\ h.monthlyReturns
                        = [i \in 1..k |-> [date   |-> monthlyReturns[i].date,
                                           return |-> monthlyReturns[i].portfolioReturn]]
                  /\ h.currentWeights = currentWeights
                  /\ h.monthsSinceRebalance = monthsSinceRebalance
                  /\ h.cumulativeReturn = cumulativeValue
        /\ pc = "done" =>
              /\ Len(InlineFinal.monthlyReturns) = Len(result.monthlyReturns)
              /\ Len(InlineFinal.monthlySeries) = Len(result.timeSeries) + 1
              /\ InlineFinal.monthlySeries[1].value = One
              /\ Tail(InlineFinal.monthlySeries) = result.timeSeries

\* a returned run over an ascending duplicate-free feed of three complete
\* dates, rebalanced every second month: the second record is a rebalance
\* record whose drifted weights differ from the config weights
C30_Witness ==
    /\ InCalculatePortfolio /\ SortedByDate(returns) /\ NoDuplicatePairs(returns)
    /\ pc = "done"
    /\ Len(result.monthlyReturns) = 3
    /\ result.monthlyReturns[2].wasRebalanced
    /\ result.monthlyReturns[2].weightsBeforeRebalance
          # result.monthlyReturns[2].weightsAfterRebalance
    /\ result.monthlyReturns[2].portfolioReturn # Zero
    /\ Len(InlineFinal.monthlySeries) = 4

-----------------------------------------------------------------------------
(* C25 *)

\* C25 as stated: when fetchMissingAssets returns, success + failed equals
\* the number of tickers passed in, whatever the outcomes of the requests
\* were (among them a non-ok status whose body read fails); an empty list
\* returns {success: 0, failed: 0} without any request.
C25_Original ==
    fetchPc = "returned" =>
        /\ fetchResult.success + fetchResult.failed = Len(missingAssets)
        /\ Len(missingAssets) = 0 =>
              /\ fetchResult = [success |-> 0, failed |-> 0]
              /\ fetchEvents = <<>>

-----------------------------------------------------------------------------
(* C26 *)

\* the positions of the events of one kind
EventsOfKind(kind) == { i \in 1..Len(fetchEvents) : fetchEvents[i].kind = kind }

\* the requests issued so far are those of the first tickers, in list order
RequestsInListOrder ==
    SelectSeq(fetchEvents, LAMBDA e : e.kind = "request")
        = [i \in 1..tickerIdx |-> [kind |-> "request", ticker |-> missingAssets[i]]]

\* a rate-limit wait lies between any two requests
WaitBetweenRequests ==
    \A i, j \in EventsOfKind("request") :
        i < j => \E k \in EventsOfKind("wait") : i < k /\ k < j

\* no wait follows the request of the last ticker
NoWaitAfterLast ==
    \A i \in EventsOfKind("request"), k \in EventsOfKind("wait") :
        fetchEvents[i].ticker = missingAssets[Len(missingAssets)] => k < i

\* C26 as stated: fetchMissingAssets processes the tickers one at a time in
\* list order; between the end of the request of one ticker and the start of
\* the request of the next a rate-limit wait always occurs, whatever the
\* outcome of the earlier request (success, failure response, thrown error or
\* abort); no wait occurs after the last ticker.
C26_Original ==
    fetchPc # "idle" =>
        /\ RequestsInListOrder
        /\ WaitBetweenRequests
        /\ NoWaitAfterLast

-----------------------------------------------------------------------------
(* C27 *)

\* the calls of getDataService so far, by position
SingletonCalls == { i \in 1..Len(serviceCalls) : serviceCalls[i].fn = "getDataService" }

FactoryCalls == { i \in 1..Len(serviceCalls) : serviceCalls[i].fn = "createDataService" }

\* both environment variables were set when the call was made
EnvironmentSet(call) ==
    /\ call.env.SUPABASE_URL \notin {Undefined, <<"">>}
    /\ call.env.SUPABASE_KEY \notin {Undefined, <<"">>}

\* the number of objects the calls of a set constructed
RECURSIVE Constructions(_)
Constructions(calls) ==
    IF calls = {} THEN 0
    ELSE LET i == CHOOSE c \in calls : TRUE
         IN  serviceCalls[i].constructed + Constructions(calls \ {i})

\* C27: getDataService constructs at most one PortfolioDataService; after
\* its first successful call every later call returns that same instance,
\* whatever the environment variables have become; a call made with no
\* instance cached while SUPABASE_URL or SUPABASE_KEY is missing throws and
\* caches nothing, and a later call with both set succeeds; createDataService
\* constructs a separate object and leaves the cached instance as it was.
C27_Singleton ==
    /\ Constructions(SingletonCalls) <= 1
    /\ \A i, j \in SingletonCalls :
          (i < j /\ serviceCalls[i].threw = Undefined) =>
              /\ serviceCalls[j].threw = Undefined
              /\ serviceCalls[j].returned = serviceCalls[i].returned
              /\ serviceCalls[j].constructed = 0
    /\ \A i \in SingletonCalls :
          /\ (serviceCalls[i].before = Undefined /\ ~EnvironmentSet(serviceCalls[i])) =>
                /\ serviceCalls[i].threw # Undefined
                /\ serviceCalls[i].returned = Undefined
                /\ serviceCalls[i].after = Undefined
          /\ EnvironmentSet(serviceCalls[i]) =>
                /\ serviceCalls[i].threw = Undefined
                /\ serviceCalls[i].returned = serviceCalls[i].after
                /\ serviceCalls[i].returned # Undefined
    /\ \A i \in FactoryCalls :
          /\ serviceCalls[i].after = serviceCalls[i].before
          /\ serviceCalls[i].returned # serviceCalls[i].before
          /\ serviceCalls[i].returned.supabaseUrl = serviceCalls[i].argument.supabaseUrl
          /\ serviceCalls[i].returned.supabaseKey = serviceCalls[i].argument.supabaseKey
    /\ dataServiceInstance # Undefined =>
          \E i \in SingletonCalls : serviceCalls[i].returned = dataServiceInstance

\* three calls of getDataService: the first throws with the key empty, the
\* second succeeds with both variables set, the third returns the same
\* instance after SUPABASE_URL was removed
C27_Witness ==
    /\ Len(serviceCalls) = 3
    /\ SingletonCalls = {1, 2, 3}
    /\ serviceCalls[1].threw # Undefined
    /\ serviceCalls[1].env.SUPABASE_KEY = <<"">>
    /\ serviceCalls[2].threw = Undefined
    /\ serviceCalls[3].env.SUPABASE_URL = Undefined
    /\ serviceCalls[3].returned = serviceCalls[2].returned
    /\ serviceCalls[3].returned # Undefined

-----------------------------------------------------------------------------
(* C28 *)

\* checkAssetExists has returned
CheckReturned == existsCheck # Undefined /\ existsCheck.outcome # "pending"

\* C28: the add-asset POST handler spawns the fetch script at most once per
\* request, and only when the ticker is non-empty and the existence check on
\* the upper-cased ticker did not return true.  A missing ticker is answered
\* with status 400 before any database or script access; an existing ticker
\* with success and action 'exists' and no spawn; a database error during the
\* existence check counts as 'does not exist' and leads to the spawn.
C28_SpawnGuard ==
    /\ Len(spawns) <= 1
    /\ Len(spawns) = 1 =>
          /\ ~TickerMissing(addBody)
          /\ CheckReturned
          /\ ~existsCheck.returned
          /\ existsCheck.ticker = ToUpperCase(addBody.ticker)
          /\ spawns[1] = ToUpperCase(addBody.ticker)
    /\ (addBody.kind = "object" /\ TickerMissing(addBody) /\ addPc # "received") =>
          /\ addPc = "responded"
          /\ addResponse.status = 400
          /\ existsCheck = Undefined
          /\ spawns = <<>>
          /\ childState = "none"
    /\ CheckReturned =>
          /\ existsCheck.outcome = "rows" =>
                (existsCheck.returned <=> ToUpperCase(addBody.ticker) \in dbTickers)
          /\ existsCheck.returned =>
                /\ addPc = "responded"
                /\ addResponse = JsonResponse(200, TRUE, "exists",
                      <<ToUpperCase(addBody.ticker), " already exists in database">>)
                /\ spawns = <<>>
          /\ existsCheck.outcome \in {"error", "threw"} =>
                /\ ~existsCheck.returned
                /\ Len(spawns) = 1

\* the ticker 'spy' of a table that holds SPY: the existence query fails
\* with a database error and the script is spawned on SPY
C28_Witness ==
    /\ addBody.ticker = "spy"
    /\ dbTickers = {"SPY"}
    /\ CheckReturned
    /\ existsCheck.outcome = "error"
    /\ spawns = <<"SPY">>
    /\ childState = "running"

-----------------------------------------------------------------------------
(* C29 *)

\* the value the promise of addNewAsset is to resolve to, by the claim
ResolutionOf(code, stdout, stderr) ==
    IF code = 0 /\ JsonParse(stdout).ok THEN JsonParse(stdout).value
    ELSE IF code = 0
    THEN [success |-> FALSE, action |-> "error",
          message |-> <<"Failed to parse Python output: ", stdout>>]
    ELSE [success |-> FALSE, action |-> "error",
          message |-> <<"Python script failed: ", stderr>>]

\* C29: the promise of addNewAsset never rejects and is resolved once the
\* script process has closed: to the parsed object on exit code 0 with
\* parseable JSON output, to {success: false, action: 'error'} with a message
\* on exit code 0 with unparseable output and on any other exit code; resolve
\* is called exactly once per spawn, by the close listener.
C29_AlwaysResolves ==
    /\ promise = Undefined <=> spawns = <<>>
    /\ promise # Undefined =>
          /\ promise.state \in {"pending", "resolved"}
          /\ childState = "running" => (promise.state = "pending" /\ resolveCalls = 0)
          /\ childState = "closed" =>
                /\ promise.state = "resolved"
                /\ resolveCalls = Len(spawns)
                /\ promise.value = ResolutionOf(exitCode, output, errorOutput)
                /\ (exitCode # 0 \/ ~JsonParse(output).ok) =>
                      (~promise.value.success /\ promise.value.action = "error")
          /\ addPc = "responded" => childState = "closed"

\* the script exits with code 0 after writing a JSON text cut short: the
\* promise is resolved to the error answer
C29_Witness ==
    /\ childState = "closed"
    /\ exitCode = 0
    /\ output = <<"{", "success: true, action: added">>
    /\ promise.state = "resolved"
    /\ promise.value.action = "error"
    /\ addPc = "responded"
    /\ addResponse.status = 200

-----------------------------------------------------------------------------
(* C22 *)

\* the place of a step in the order of the claim
StepRank(step) ==
    CASE step = "check"     -> 1
      [] step = "resolve"   -> 2
      [] step = "feed"      -> 3
      [] step = "calculate" -> 4
      [] step = "csv"       -> 5

StepCount(step) == Cardinality({ i \in 1..Len(steps) : steps[i] = step })

StepTaken(step) == StepCount(step) > 0

\* the steps taken so far are in the order of the claim, none of them twice
InClaimedOrder ==
    \A i, j \in 1..Len(steps) : i < j => StepRank(steps[i]) < StepRank(steps[j])

\* each conditional step was taken under its condition only
StepsGuarded ==
    /\ StepTaken("resolve") => Len(missingAssets) > 0
    /\ StepTaken("feed") => (StepTaken("resolve") <=> fetchPc = "returned")
    /\ StepTaken("calculate") => (feedRows # Undefined /\ Len(feedRows) > 0)
    /\ StepTaken("csv") =>
          (requestBody.generateCSV /\ pc = "done" /\ result # Undefined /\ csv # Undefined)

\* a failed resolution and a throwing calculation end their step: nothing
\* is called a second time, and the thrown error ends the request
NothingRetried ==
    /\ (fetchResult # Undefined /\ fetchResult.failed > 0) =>
          /\ StepCount("resolve") = 1
          /\ Cardinality(EventsOfKind("request")) <= Len(missingAssets)
          /\ reqPc = "responded" => StepCount("feed") = 1
    /\ pc = "threw" =>
          /\ StepCount("resolve") <= 1
          /\ StepCount("feed") = 1
          /\ StepCount("calculate") = 1
          /\ ~StepTaken("csv")
          /\ reqPc = "responded" => response.status = 500

\* the request body is a JSON object with an assets list, and getDataService
\* returns a data service: the cached one, or a new one when both
\* environment variables are set
ReachesDataService ==
    /\ requestBody.kind = "object"
    /\ \/ dataServiceInstance # Undefined
       \/ ~(Falsy(env.SUPABASE_URL) \/ Falsy(env.SUPABASE_KEY))

\* the statement as claimed: every answered request has checked for missing
\* assets once and queried the feed once
C22_Original ==
    reqPc # "idle" =>
       /\ InClaimedOrder
       /\ StepsGuarded
       /\ NothingRetried
       /\ reqPc = "responded" => (StepCount("check") = 1 /\ StepCount("feed") = 1)

\* C22: in the refactored calculate handler the steps of a request occur in
\* this order and never repeat: check for missing assets, missing-asset
\* resolution (only if some are missing), the feed query, calculatePortfolio
\* (only if the feed returned a row), CSV writing (only if requested and only
\* after calculatePortfolio returned).  A request whose body parses to an
\* object with an assets list and for which getDataService returns makes
\* exactly one check and exactly one feed query; any other request is
\* answered with status 500 before any step.  A failed resolution or a
\* throwing calculatePortfolio is not retried, and neither is the feed query.
C22_StepOrder ==
    reqPc # "idle" =>
       /\ InClaimedOrder
       /\ StepsGuarded
       /\ NothingRetried
       /\ reqPc = "responded" =>
             IF ReachesDataService
             THEN StepCount("check") = 1 /\ StepCount("feed") = 1
             ELSE steps = <<>> /\ response.status = 500 /\ fetchPc = "idle" /\ pc = "idle"

\* a request for X and Y with a CSV log: both assets are missing, one of the
\* two add-asset requests fails, the feed returns rows, calculatePortfolio
\* returns and the CSV is written
C22_Witness ==
    /\ reqPc = "responded"
    /\ steps = <<"check", "resolve", "feed", "calculate", "csv">>
    /\ missingAssets = <<"X", "Y">>
    /\ fetchResult = [success |-> 1, failed |-> 1]
    /\ Len(monthlyReturns) = 2
    /\ response.status = 200
    /\ response.logFile = <<"Returns_Log_timestamp.csv">>

====
